---------------------------- MODULE Spec2Model ----------------------------
(***************************************************************************)
(* Model of the steam-comment-service-bot controller:                      *)
(*   - the proxy checks        (checkProxies.js: checkProxy,               *)
(*                              checkAllProxies),                          *)
(*   - the login scheduler     (controller.js: info, login),               *)
(*   - the friend commands     (friend.js: addfriend, unfriend,            *)
(*                              unfriendall),                              *)
(*   - boot and restart        (controller.js: restartdata, _start,        *)
(*                              _preLogin, restart, stop),                 *)
(*   - the friendlist upkeep   (controller.js: friendListCapacityCheck,    *)
(*                              _lastcommentUnfriendCheck),                *)
(*   - the helpers             (limitedcheck.js, npminteraction.js).       *)
(* Time is counted in seconds (1 unit = 1000 ms of Date.now()).            *)
(***************************************************************************)
EXTENDS Integers, Sequences, FiniteSets, TLC

VARIABLES
    now,          \* the clock (Date.now())
    proxies,      \* DataManager.proxies: proxyIndex -> record
    calls,        \* the checkProxy() invocations made so far
    allChecks,    \* the checkAllProxies() invocations made so far
    lastReturn,   \* the checkProxy() invocation that returned last, and its value
    info,         \* Controller.info
    status,       \* the status of every bot account
    loginQueue,   \* the accounts the running login() still has to log in
    loginProc,    \* what the running login() is doing
    retries,      \* failed login attempts per account
    loginStarts,  \* the login attempts started so far: account and time
    limited,      \* per account: user.limitations.limited == true
    myFriends,    \* per account: user.myFriends, steamID -> relationship
    timers,       \* the pending setTimeout callbacks, in creation order
    remoteCalls,  \* the calls made to Steam so far, in order
    cmds,         \* the commands processed so far, in order
    errlog,       \* what the commands have logged
    envChanges,   \* changes of the accounts' condition so far
    globals,      \* controller.js: oldconfig, logafterrestart, updateFailed,
                  \* skippedaccounts (variables kept through restarts)
    boot,         \* where _start() of the running process is, and its output
    sent,         \* the messages given to process.send() so far
    lastcomment,  \* per account: the lastcomment database entries of its
                  \* friends (peer, time of the last request), in insertion order
    removalQueue, \* the removals queued by the capacity check and the sweep
    checks,       \* the capacity checks and sweeps run so far
    limitedcheck, \* the run of limitedcheck.check: its botobject, its
                  \* counters and the calls of its callback
    npm           \* the run of an npminteraction function: its steps and
                  \* the calls of its callback

proxyVars == <<proxies, calls, allChecks, lastReturn>>
loginVars == <<info, status, loginQueue, loginProc, retries, loginStarts>>
friendVars == <<limited, myFriends, timers, remoteCalls, cmds, errlog,
                envChanges>>
bootVars == <<globals, boot, sent>>
ledgerVars == <<lastcomment, removalQueue, checks>>
helperVars == <<limitedcheck, npm>>
vars == <<now, proxyVars, loginVars, friendVars, bootVars, ledgerVars,
          helperVars>>

(***************************************************************************)
(* Bounds of the model.                                                    *)
(***************************************************************************)
NumProxies == 2      \* entries of the proxies array (entry 0: no proxy)
MaxCalls == 3        \* checkProxy() invocations in one behaviour
MaxTime == 2         \* the proxy checks are observed up to this time
NumAccounts == 3     \* configured bot accounts (account 0 is the main account)
MaxLoginTime == 8    \* the login scheduler is observed up to this time
NumIds == 3          \* steamIDs (id 1 is the owner of cachefile.ownerid)
MaxCmds == 2         \* commands processed in one behaviour
MaxEnv == 1          \* changes of the accounts' condition in one behaviour
MaxFailures == 1     \* remote calls that fail in one behaviour
MaxIssueTime == 2    \* the clock moves in single steps up to this time
MaxSent == 2         \* messages given to process.send() in one behaviour
MaxSkipped == 2      \* accounts skipped by the login of one process
MaxBacklog == 2      \* messages held back by the logger stand-in of one process
MaxChecks == 2       \* capacity checks and sweeps in one behaviour
MaxLedgerTime == 3   \* the friendlist upkeep is observed up to this time
MaxLedgerChanges == 3 \* new friends and requests of friends in one behaviour

ProxyIndexes == 0 .. (NumProxies - 1)

(***************************************************************************)
(* checkProxies.js                                                         *)
(***************************************************************************)

\* What checkConnection() can settle with: it resolves or rejects with a
\* response holding a statusCode (0 stands for the null of a failed request).
Probes ==
    [resolved : {TRUE}, statusCode : {199, 200, 299, 300}]
        \cup [resolved : {FALSE}, statusCode : {0}]

NoProbe == [resolved |-> FALSE, statusCode |-> 0]

\* .then((res) => { thisProxy.isOnline = res.statusCode >= 200 && res.statusCode < 300 })
ThenHandlerLax(res) == res.statusCode >= 200 /\ res.statusCode <= 300
ThenHandler(res) == res.statusCode >= 200 /\ res.statusCode < 300

\* The promise chain checkConnection(...).then(...).catch(...) once the probe
\* has settled: whether the awaited chain rejects, and the isOnline it leaves.
SettleNoCatch(old, probe) ==
    IF probe.resolved
        THEN [rejected |-> FALSE, isOnline |-> ThenHandler(probe)]
        ELSE [rejected |-> TRUE, isOnline |-> old]
checkProxySettle(old, probe) ==
    IF probe.resolved
        THEN [rejected |-> FALSE, isOnline |-> ThenHandler(probe)]
        ELSE [rejected |-> FALSE, isOnline |-> FALSE]

InFlight(c) == calls[c].phase \in {"probing", "settled"}

\* The synchronous part of checkProxy(proxyIndex) up to its await: the
\* invocation is recorded with its probe under way.
NewCall(p, batch, others) ==
    [proxyIndex |-> p, phase |-> "probing", probe |-> NoProbe,
     batch |-> batch,
     overlap |-> \E c \in DOMAIN others : others[c].proxyIndex = p
                    /\ others[c].phase \in {"probing", "settled"}]

MarkOverlap(cs, p) ==
    [c \in DOMAIN cs |->
        IF cs[c].proxyIndex = p /\ cs[c].phase \in {"probing", "settled"}
            THEN [cs[c] EXCEPT !.overlap = TRUE] ELSE cs[c]]

\* checkProxy(proxyIndex), called on its own.
CheckProxy(p) ==
    /\ Len(calls) < MaxCalls
    /\ calls' = Append(MarkOverlap(calls, p), NewCall(p, 0, calls))
    /\ UNCHANGED <<helperVars, ledgerVars, bootVars, now, proxies, allChecks, lastReturn, loginVars, friendVars>>

\* The probe of invocation c settles; the .then / .catch handler runs.
ProbeSettles(c, probe) ==
    /\ calls[c].phase = "probing"
    /\ LET p == calls[c].proxyIndex
           r == checkProxySettle(proxies[p].isOnline, probe)
       IN /\ proxies' = [proxies EXCEPT ![p].isOnline = r.isOnline]
          /\ calls' = [calls EXCEPT ![c].probe = probe,
                          ![c].phase = IF r.rejected THEN "rejected" ELSE "settled"]
    /\ UNCHANGED <<helperVars, ledgerVars, bootVars, now, allChecks, lastReturn, loginVars, friendVars>>

\* The continuation of checkProxy after its await:
\* thisProxy.lastOnlineCheck = Date.now(); return thisProxy.isOnline
CheckProxyReturns(c) ==
    /\ calls[c].phase = "settled"
    /\ LET p == calls[c].proxyIndex
       IN /\ proxies' = [proxies EXCEPT ![p].lastOnlineCheck = now]
          /\ calls' = [calls EXCEPT ![c].phase = "returned",
                                    ![c].probe = NoProbe]
          /\ lastReturn' = [call |-> c, value |-> proxies[p].isOnline]
    /\ UNCHANGED <<helperVars, ledgerVars, bootVars, now, allChecks, loginVars, friendVars>>

\* Promise.all over the phases of the promises it was given.
PromiseAny(phases) ==
    IF \E i \in DOMAIN phases : phases[i] = "rejected" THEN "rejected"
    ELSE IF \E i \in DOMAIN phases : phases[i] = "returned" THEN "resolved"
    ELSE "pending"
PromiseAll(phases) ==
    IF \E i \in DOMAIN phases : phases[i] = "rejected" THEN "rejected"
    ELSE IF \A i \in DOMAIN phases : phases[i] = "returned" THEN "resolved"
    ELSE "pending"

\* promiseArr of a checkAllProxies() invocation, as the phases of its calls.
PromiseArr(b) == [i \in DOMAIN allChecks[b].promiseArr |->
                    calls[allChecks[b].promiseArr[i]].phase]

RECURSIVE StartAllOneByOne(_, _, _)
StartAllOneByOne(cs, todo, batch) ==
    IF todo = <<>> THEN cs
    ELSE LET p == proxies[Head(todo)].proxyIndex
             first == \A c \in DOMAIN cs : cs[c].batch # batch
         IN StartAllOneByOne(
                Append(MarkOverlap(cs, p),
                       [NewCall(p, batch, cs) EXCEPT
                            !.phase = IF first THEN "probing" ELSE "queued"]),
                Tail(todo), batch)
RECURSIVE StartAll(_, _, _)
\* this.proxies.forEach((e) => promiseArr.push(this.checkProxy(e.proxyIndex)))
StartAll(cs, todo, batch) ==
    IF todo = <<>> THEN cs
    ELSE LET p == proxies[Head(todo)].proxyIndex
         IN StartAll(Append(MarkOverlap(cs, p), NewCall(p, batch, cs)),
                     Tail(todo), batch)

ProxyOrder == [i \in 1 .. NumProxies |-> i - 1]

\* checkAllProxies() up to its await: every checkProxy is started.
CheckAllProxies ==
    /\ Len(calls) + NumProxies <= MaxCalls
    /\ LET b == Len(allChecks) + 1
       IN /\ calls' = StartAll(calls, ProxyOrder, b)
          /\ allChecks' = Append(allChecks,
                [promiseArr |-> [i \in 1 .. NumProxies |-> Len(calls) + i],
                 phase |-> "pending", startedAt |-> now])
    /\ UNCHANGED <<helperVars, ledgerVars, bootVars, now, proxies, lastReturn, loginVars, friendVars>>

\* await Promise.all(promiseArr) settles.
CheckAllSettles(b) ==
    /\ allChecks[b].phase = "pending"
    /\ PromiseAll(PromiseArr(b)) # "pending"
    /\ allChecks' = [allChecks EXCEPT ![b].phase = PromiseAll(PromiseArr(b))]
    /\ UNCHANGED <<helperVars, ledgerVars, bootVars, now, proxies, calls, lastReturn, loginVars, friendVars>>

\* Continuations that are ready run before the clock moves on.
MicrotaskPending ==
    \/ \E c \in DOMAIN calls : calls[c].phase = "settled"
    \/ \E b \in DOMAIN allChecks :
          allChecks[b].phase = "pending" /\ PromiseAll(PromiseArr(b)) # "pending"

ProxyTick ==
    /\ now < MaxTime
    /\ ~MicrotaskPending
    /\ now' = now + 1
    /\ UNCHANGED <<helperVars, ledgerVars, bootVars, proxyVars, loginVars, friendVars>>


(***************************************************************************)
(* controller.js: Controller.info and the login scheduler.                 *)
(***************************************************************************)
Accounts == 0 .. (NumAccounts - 1)

\* this.info = { lastLoginTimestamp: 0, activeLogin: false,
\*               relogAfterDisconnect: true, readyAfter: 0, skippedaccounts: [] }
InfoInit ==
    [lastLoginTimestamp |-> 0, activeLogin |-> FALSE,
     relogAfterDisconnect |-> TRUE, readyAfter |-> 0, skippedaccounts |-> <<>>]

MinSpacing == 2      \* minimum spacing between two login attempts
MaxRetries == 1      \* transient failures after which an account is skipped

Max(a, b) == IF a >= b THEN a ELSE b

\* wait = max(0, minSpacing - (now - lastLoginTimestamp))
LoginWaitNone(t, last) == 0
LoginWait(t, last) == Max(0, MinSpacing - (t - last))

RECURSIVE InOrder(_, _)
\* The accounts of set S from index a on, in fleet order.
InOrder(S, a) ==
    IF a >= NumAccounts THEN <<>>
    ELSE IF a \in S THEN <<a>> \o InOrder(S, a + 1) ELSE InOrder(S, a + 1)

\* The retry count of session a is used up.
GiveUpNever(a) == FALSE
GiveUp(a) == retries[a] >= MaxRetries

\* The sessions a login() run has to bring online.
NeedsLoginAlsoError(a) ==
    \/ status[a] \in {"OFFLINE", "ERROR"}
    \/ status[a] = "DISCONNECTED" /\ info.relogAfterDisconnect
NeedsLoginAnyDisconnected(a) == status[a] \in {"OFFLINE", "DISCONNECTED"}
NeedsLogin(a) ==
    \/ status[a] = "OFFLINE"
    \/ status[a] = "DISCONNECTED" /\ info.relogAfterDisconnect

IdleProc == [phase |-> "idle", acc |-> 0, wakeAt |-> 0]

\* login(): refused while another login process is active.
Login ==
    /\ ~info.activeLogin
    /\ \E a \in Accounts : NeedsLogin(a)
    /\ info' = [info EXCEPT !.activeLogin = TRUE]
    /\ loginQueue' = InOrder({a \in Accounts : NeedsLogin(a)}, 0)
    /\ UNCHANGED <<helperVars, ledgerVars, bootVars, now, proxyVars, status, loginProc, retries, loginStarts, friendVars>>

\* The scheduler takes the next session only when no attempt is under way.
MayDequeueAlways == TRUE
MayDequeue == loginProc.phase = "idle"

\* Pop the next session and suspend for the computed wait.
LoginDequeue ==
    /\ info.activeLogin
    /\ MayDequeue
    /\ loginQueue # <<>>
    /\ loginProc' = [phase |-> "waiting", acc |-> Head(loginQueue),
                     wakeAt |-> now + LoginWait(now, info.lastLoginTimestamp)]
    /\ loginQueue' = Tail(loginQueue)
    /\ UNCHANGED <<helperVars, ledgerVars, bootVars, now, proxyVars, info, status, retries, loginStarts, friendVars>>

\* The wait is over: the login attempt of the session starts, unless the
\* session is not to be logged in any more.
LoginAttemptStarts ==
    /\ loginProc.phase = "waiting"
    /\ now >= loginProc.wakeAt
    /\ IF NeedsLogin(loginProc.acc)
         THEN /\ status' = [status EXCEPT ![loginProc.acc] = "LOGGING_IN"]
              /\ loginStarts' = Append(loginStarts,
                                    [acc |-> loginProc.acc, at |-> now])
              /\ loginProc' = [loginProc EXCEPT !.phase = "attempting"]
         ELSE /\ loginProc' = IdleProc
              /\ UNCHANGED <<status, loginStarts>>
    /\ UNCHANGED <<helperVars, ledgerVars, bootVars, now, proxyVars, info, loginQueue, retries, friendVars>>

\* The attempt ends: lastLoginTimestamp = now, whatever the outcome.
\*   "success":   the session is ONLINE;
\*   "transient": the session is requeued at the tail, or after MaxRetries
\*                failures marked ERROR and recorded in skippedaccounts;
\*   "fatal":     the session is marked ERROR at once.
LoginAttemptEnds(outcome) ==
    /\ loginProc.phase = "attempting"
    /\ LET a == loginProc.acc
           giveUp == outcome = "transient" /\ GiveUp(a)
       IN /\ status' = [status EXCEPT ![a] =
                CASE outcome = "success" -> "ONLINE"
                  [] outcome = "fatal" -> "ERROR"
                  [] OTHER -> IF giveUp THEN "ERROR" ELSE "OFFLINE"]
          /\ retries' = IF outcome = "transient" /\ ~giveUp
                          THEN [retries EXCEPT ![a] = @ + 1] ELSE retries
          /\ loginQueue' = IF outcome = "transient" /\ ~giveUp
                             THEN Append(loginQueue, a) ELSE loginQueue
          /\ info' = [info EXCEPT
                !.lastLoginTimestamp = now,
                !.skippedaccounts = IF giveUp THEN Append(@, a) ELSE @]
    /\ loginProc' = IdleProc
    /\ UNCHANGED <<helperVars, ledgerVars, bootVars, now, proxyVars, loginStarts, friendVars>>

\* The queue is empty: the login process is over.
LoginFinishes ==
    /\ info.activeLogin
    /\ loginProc.phase = "idle"
    /\ loginQueue = <<>>
    /\ info' = [info EXCEPT !.activeLogin = FALSE]
    /\ UNCHANGED <<helperVars, ledgerVars, bootVars, now, proxyVars, status, loginQueue, loginProc, retries,
                   loginStarts, friendVars>>

\* The connection of an ONLINE session drops.
Disconnect(a) ==
    /\ status[a] = "ONLINE"
    /\ status' = [status EXCEPT ![a] = "DISCONNECTED"]
    /\ UNCHANGED <<helperVars, ledgerVars, bootVars, now, proxyVars, info, loginQueue, loginProc, retries,
                   loginStarts, friendVars>>

\* relogAfterDisconnect is switched (bot.logOff() clears it).
SetRelogAfterDisconnect(v) ==
    /\ info.relogAfterDisconnect # v
    /\ info' = [info EXCEPT !.relogAfterDisconnect = v]
    /\ UNCHANGED <<helperVars, ledgerVars, bootVars, now, proxyVars, status, loginQueue, loginProc, retries,
                   loginStarts, friendVars>>

\* The clock moves on; a wait that is over ends first.
LoginTick ==
    /\ now < MaxLoginTime
    /\ ~(loginProc.phase = "waiting" /\ now >= loginProc.wakeAt)
    /\ now' = now + 1
    /\ UNCHANGED <<helperVars, ledgerVars, bootVars, proxyVars, loginVars, friendVars>>

LoginState0 ==
    /\ info = InfoInit
    /\ status = [a \in Accounts |-> "OFFLINE"]
    /\ loginQueue = <<>>
    /\ loginProc = IdleProc
    /\ retries = [a \in Accounts |-> 0]
    /\ loginStarts = <<>>

ProxyState0 ==
    /\ proxies = [p \in ProxyIndexes |->
            [proxyIndex |-> p, proxy |-> IF p = 0 THEN "null" ELSE "url",
             isOnline |-> TRUE, lastOnlineCheck |-> 0]]
    /\ calls = <<>>
    /\ allChecks = <<>>
    /\ lastReturn = [call |-> 0, value |-> FALSE]



(***************************************************************************)
(* controller.js: the data kept through restarts.                          *)
(***************************************************************************)

\* The log messages the model tells apart: one of one line, one of two.
Msgs == {"m1", "m2\nm3"}

\* The keys restartdata() reads, in the order restart payloads list them.
KeyOrder == <<"skippedaccounts", "logafterrestart", "updateFailed", "oldconfig">>
Keys == {KeyOrder[i] : i \in DOMAIN KeyOrder}

\* var oldconfig = {}, logafterrestart = [], updateFailed = false,
\* skippedaccounts = [] (oldconfig is one opaque value).
GlobalsInit ==
    [oldconfig |-> "{}", logafterrestart |-> <<>>, updateFailed |-> FALSE,
     skippedaccounts |-> <<>>]

\* JSON.stringify, as a sequence of tokens: a string is quoted, a number is
\* written in decimal, an array is bracketed with commas between elements.
\* JSON.stringify writes the line break of a string as \n (the keys and
\* the one-line messages have nothing to escape).
RECURSIVE Escape(_)
Escape(str) ==
    IF Len(str) = 0 THEN ""
    ELSE (IF SubSeq(str, 1, 1) = "\n" THEN "\\n" ELSE SubSeq(str, 1, 1))
         \o Escape(SubSeq(str, 2, Len(str)))
Quote(str) == "\"" \o str \o "\""

EncodeElement(k, v) ==
    IF k = "skippedaccounts" THEN ToString(v) ELSE Quote(Escape(v))

EncodeValue(k, v) ==
    IF k = "updateFailed" THEN <<IF v THEN "true" ELSE "false">>
    ELSE IF k = "oldconfig" THEN <<v>>
    ELSE <<"[">>
         \o [i \in 1 .. (2 * Len(v) - 1) |->
                IF i % 2 = 1 THEN EncodeElement(k, v[(i + 1) \div 2]) ELSE ","]
         \o <<"]">>

RECURSIVE EncodeFields(_, _, _)
EncodeFields(obj, i, first) ==
    IF i > Len(KeyOrder) THEN <<>>
    ELSE IF KeyOrder[i] \notin DOMAIN obj THEN EncodeFields(obj, i + 1, first)
    ELSE (IF first THEN <<>> ELSE <<",">>)
         \o <<Quote(KeyOrder[i]), ":">>
         \o EncodeValue(KeyOrder[i], obj[KeyOrder[i]])
         \o EncodeFields(obj, i + 1, FALSE)

Stringify(obj) == <<"{">> \o EncodeFields(obj, 1, TRUE) \o <<"}">>

\* JSON.parse of a token sequence Stringify can produce: the keys are the
\* tokens followed by a colon, an array runs up to its closing bracket.
KeyAt(toks, i) == CHOOSE k \in Keys : Quote(k) = toks[i]

DecodeElement(k, tok) ==
    IF k = "skippedaccounts"
      THEN CHOOSE n \in 0 .. NumAccounts : ToString(n) = tok
      ELSE CHOOSE m \in Msgs : Quote(Escape(m)) = tok

ArrayEnd(toks, i) ==
    CHOOSE j \in i .. Len(toks) :
        toks[j] = "]" /\ \A l \in i .. (j - 1) : toks[l] # "]"

DecodeValue(k, toks, i) ==
    IF k = "updateFailed" THEN toks[i] = "true"
    ELSE IF k = "oldconfig" THEN toks[i]
    ELSE LET n == (ArrayEnd(toks, i) - i) \div 2
         IN [e \in 1 .. n |-> DecodeElement(k, toks[i + 2 * e - 1])]

Parse(toks) ==
    LET at == {i \in 1 .. (Len(toks) - 1) : toks[i + 1] = ":"}
        pos(k) == CHOOSE i \in at : KeyAt(toks, i) = k
    IN [k \in {KeyAt(toks, i) : i \in at} |-> DecodeValue(k, toks, pos(k) + 2)]

\* if (data.x): false, "" and a missing key are falsy; an array and an
\* object are truthy, the empty ones too.
Truthy(data, k) ==
    /\ k \in DOMAIN data
    /\ k = "updateFailed" => data[k]

\* restartdata(data)
RestartDataIgnoresSkipped(data) ==
    LET d == Parse(data)
    IN [k \in Keys |->
          IF k # "skippedaccounts" /\ Truthy(d, k) THEN d[k] ELSE GlobalsInit[k]]
restartdata(data) ==
    LET d == Parse(data)
    IN [k \in Keys |-> IF Truthy(d, k) THEN d[k] ELSE GlobalsInit[k]]

\* A process just started: the Controller is constructed and _start() has
\* not run yet. from is the message of the previous process that made the
\* host start this one (0: none), handled counts the messages the host has
\* dealt with, log is what the real logger has put out.
Booted(from, handled) ==
    [pc |-> "constructed", log |-> <<>>, from |-> from, handled |-> handled]

BootState0 ==
    /\ globals = GlobalsInit
    /\ boot = Booted(0, 0)
    /\ sent = <<>>
    /\ lastcomment = [a \in Accounts |-> <<>>]
    /\ removalQueue = <<>>
    /\ checks = <<>>

\* No helper function has been called.
NpmIdle == [fn |-> "none", pc |-> "idle", path |-> "none", steps |-> <<>>,
            callbacks |-> <<>>]

HelperState0 ==
    /\ limitedcheck = [pc |-> "idle", botobject |-> <<>>, limitedaccs |-> 0,
                       failedtocheck |-> 0, callbacks |-> <<>>]
    /\ npm = NpmIdle

\* restart(data) was called without data
NoData == <<>>

\* The payloads other modules hand to restart(data).
ExplicitPayloads ==
    {Stringify([skippedaccounts |-> <<1>>, logafterrestart |-> <<"m1", "m2\nm3">>,
                updateFailed |-> TRUE]),
     Stringify([skippedaccounts |-> <<2, 0>>, logafterrestart |-> <<"m2\nm3">>,
                updateFailed |-> FALSE, oldconfig |-> "{cfg}"]),
     Stringify([skippedaccounts |-> <<>>, logafterrestart |-> <<>>,
                updateFailed |-> FALSE])}

\* if (!data) data = JSON.stringify({ skippedaccounts: ..., updateFailed: false })
DefaultPayloadNoSkipped == Stringify([updateFailed |-> FALSE])
DefaultPayload ==
    Stringify([skippedaccounts |-> info.skippedaccounts, updateFailed |-> FALSE])

\* process.send(...), with what the call was given and what
\* info.skippedaccounts was (for the record).
Message(type, data, given) ==
    [type |-> type, data |-> data, given |-> given,
     skipped |-> info.skippedaccounts]

\* Controller.prototype.stop
StopMessage == Message("stop", <<>>, NoData)

\* Controller.prototype.restart
RestartMessage(data) ==
    Message("restart", IF data = NoData THEN DefaultPayload ELSE data, data)

\* The process is alive: the host has not stopped it.
Alive == boot.pc # "stopped"

\* The logger stand-in of controller.js is called before the real logger is
\* there: it holds the message back in logafterrestart.
LogHeldBack(m) ==
    /\ boot.pc \in {"constructed", "logger"}
    /\ Len(globals.logafterrestart) < MaxBacklog
    /\ globals' = [globals EXCEPT !.logafterrestart = Append(@, m)]
    /\ UNCHANGED <<helperVars, ledgerVars, now, proxyVars, loginVars, friendVars, boot, sent>>

\* _start up to the first await: the error handler is looked for.
StartErrorHandler(found) ==
    /\ boot.pc = "constructed"
    /\ IF found
         THEN /\ boot' = [boot EXCEPT !.pc = "logger"]
              /\ UNCHANGED sent
         ELSE /\ boot' = [boot EXCEPT !.pc = "returned"]
              /\ sent' = Append(sent, StopMessage)
    /\ UNCHANGED <<helperVars, ledgerVars, now, proxyVars, loginVars, friendVars, globals>>

\* e.split("\n"): the lines of a message, from position start on.
RECURSIVE Split(_, _, _)
Split(e, start, i) ==
    IF i > Len(e) THEN <<SubSeq(e, start, Len(e))>>
    ELSE IF SubSeq(e, i, i) = "\n"
      THEN <<SubSeq(e, start, i - 1)>> \o Split(e, i + 1, i + 1)
      ELSE Split(e, start, i + 1)

\* logafterrestart.forEach(...): what the real logger puts out for the
\* messages held back, one entry for every line of every message.
ForEachLine(e) ==
    LET lines == Split(e, 1, 1)
    IN [l \in 1 .. Len(lines) |-> [kind |-> "logafterrestart", msg |-> lines[l]]]
RECURSIVE ReplayNewestFirst(_)
ReplayNewestFirst(backlog) ==
    IF backlog = <<>> THEN <<>>
    ELSE ReplayNewestFirst(Tail(backlog)) \o ForEachLine(Head(backlog))
RECURSIVE Replay(_)
Replay(backlog) ==
    IF backlog = <<>> THEN <<>>
    ELSE ForEachLine(Head(backlog)) \o Replay(Tail(backlog))

\* _start once the logger has been looked for: the messages held back are
\* logged and forgotten, skippedaccounts is taken over, the banner is logged.
StartLogger(found) ==
    /\ boot.pc = "logger"
    /\ IF found
         THEN /\ boot' = [boot EXCEPT
                    !.pc = "misc",
                    !.log = @ \o Replay(globals.logafterrestart)
                              \o <<[kind |-> "banner", msg |-> ""]>>]
              /\ globals' = [globals EXCEPT !.logafterrestart = <<>>]
              /\ info' = [info EXCEPT !.skippedaccounts = globals.skippedaccounts]
              /\ UNCHANGED sent
         ELSE /\ boot' = [boot EXCEPT !.pc = "returned"]
              /\ sent' = Append(sent, StopMessage)
              /\ UNCHANGED <<globals, info>>
    /\ UNCHANGED <<helperVars, ledgerVars, now, proxyVars, status, loginQueue, loginProc, retries,
                   loginStarts, friendVars>>

\* _start once misc.js has been looked for: checkConnection is called.
StartMisc(found) ==
    /\ boot.pc = "misc"
    /\ IF found
         THEN /\ boot' = [boot EXCEPT !.pc = "connection"]
              /\ UNCHANGED sent
         ELSE /\ boot' = [boot EXCEPT !.pc = "returned"]
              /\ sent' = Append(sent, StopMessage)
    /\ UNCHANGED <<helperVars, ledgerVars, now, proxyVars, loginVars, friendVars, globals>>

\* checkConnection settles: the catch handler logs and calls stop(); its
\* return ends the handler, and _start goes on after the await.
StartConnection(reachable) ==
    /\ boot.pc = "connection"
    /\ boot' = [boot EXCEPT !.pc = "dataManager"]
    /\ sent' = IF reachable THEN sent ELSE Append(sent, StopMessage)
    /\ UNCHANGED <<helperVars, ledgerVars, now, proxyVars, loginVars, friendVars, globals>>

\* _start once dataManager.js has been looked for (without it _start
\* returns), the data imported and the node.js version looked at.
StartDataManager(found, supported) ==
    /\ boot.pc = "dataManager"
    /\ IF ~found
         THEN /\ boot' = [boot EXCEPT !.pc = "returned"]
              /\ UNCHANGED sent
         ELSE IF ~supported
           THEN /\ boot' = [boot EXCEPT !.pc = "returned"]
                /\ sent' = Append(sent, StopMessage)
           ELSE /\ boot' = [boot EXCEPT !.pc = "checkData"]
                /\ UNCHANGED sent
    /\ UNCHANGED <<helperVars, ledgerVars, now, proxyVars, loginVars, friendVars, globals>>

\* checkData settles: .catch(() => this.stop()), and _start goes on.
StartCheckData(passed) ==
    /\ boot.pc = "checkData"
    /\ boot' = [boot EXCEPT !.pc = "updater"]
    /\ sent' = IF passed THEN sent ELSE Append(sent, StopMessage)
    /\ UNCHANGED <<helperVars, ledgerVars, now, proxyVars, loginVars, friendVars, globals>>

\* if (updateFailed): the last update failed, the updater is skipped.
SkipUpdaterNever == FALSE
SkipUpdater == globals.updateFailed

\* _start once updater.js has been looked for: after a failed update the
\* updater is skipped, otherwise it runs and, having found an update,
\* restarts the bot itself.
StartUpdater(found, updateFound) ==
    /\ boot.pc = "updater"
    /\ IF ~found
         THEN /\ boot' = [boot EXCEPT !.pc = "returned"]
              /\ sent' = Append(sent, StopMessage)
         ELSE /\ UNCHANGED sent
              /\ IF SkipUpdater
                   THEN boot' = [boot EXCEPT !.pc = "preLogin",
                                   !.log = Append(@, [kind |-> "updateskipped",
                                                      msg |-> ""])]
                   ELSE boot' = [boot EXCEPT
                           !.pc = IF updateFound THEN "updating" ELSE "preLogin",
                           !.log = Append(@, [kind |-> "updaterrun", msg |-> ""])]
    /\ UNCHANGED <<helperVars, ledgerVars, now, proxyVars, loginVars, friendVars, globals>>

\* _preLogin: bot.js is looked for, the handlers are loaded, login(true).
PreLogin(found) ==
    /\ boot.pc = "preLogin"
    /\ IF found
         THEN /\ boot' = [boot EXCEPT !.pc = "running",
                             !.log = Append(@, [kind |-> "login", msg |-> ""])]
              /\ UNCHANGED sent
         ELSE /\ boot' = [boot EXCEPT !.pc = "returned"]
              /\ sent' = Append(sent, StopMessage)
    /\ UNCHANGED <<helperVars, ledgerVars, now, proxyVars, loginVars, friendVars, globals>>

\* The login skips account a for good and records it.
SkipAccount(a) ==
    /\ boot.pc = "running"
    /\ Len(info.skippedaccounts) < MaxSkipped
    /\ \A i \in DOMAIN info.skippedaccounts : info.skippedaccounts[i] # a
    /\ info' = [info EXCEPT !.skippedaccounts = Append(@, a)]
    /\ UNCHANGED <<helperVars, ledgerVars, now, proxyVars, status, loginQueue, loginProc, retries,
                   loginStarts, friendVars, bootVars>>

\* Controller.prototype.restart(data), called by a command, a plugin or the
\* updater.
Restart(data) ==
    /\ boot.pc \in {"running", "updating"}
    /\ Len(sent) < MaxSent
    /\ sent' = Append(sent, RestartMessage(data))
    /\ UNCHANGED <<helperVars, ledgerVars, now, proxyVars, loginVars, friendVars, globals, boot>>

\* Controller.prototype.stop(), called from outside _start.
Stop ==
    /\ boot.pc = "running"
    /\ Len(sent) < MaxSent
    /\ sent' = Append(sent, StopMessage)
    /\ UNCHANGED <<helperVars, ledgerVars, now, proxyVars, loginVars, friendVars, globals, boot>>

\* The host deals with the next message of the process: on stop() it ends
\* the process, on restart(data) it ends it and starts a new one with the
\* data as process.argv[4], which goes through restartdata() before the
\* Controller is constructed.
HostHandles ==
    /\ Alive
    /\ boot.handled < Len(sent)
    /\ LET m == sent[boot.handled + 1]
       IN IF m.type = "stop"
            THEN /\ boot' = [boot EXCEPT !.pc = "stopped", !.handled = @ + 1]
                 /\ UNCHANGED <<globals, loginVars, timers>>
            ELSE /\ globals' = restartdata(m.data)
                 /\ boot' = Booted(boot.handled + 1, boot.handled + 1)
                 /\ info' = InfoInit
                 /\ status' = [a \in Accounts |-> "OFFLINE"]
                 /\ loginQueue' = <<>>
                 /\ loginProc' = IdleProc
                 /\ retries' = [a \in Accounts |-> 0]
                 /\ timers' = <<>>
                 /\ UNCHANGED loginStarts
    /\ UNCHANGED <<helperVars, ledgerVars, now, proxyVars, limited, myFriends, remoteCalls, cmds,
                   errlog, envChanges, sent>>

(***************************************************************************)
(* friend.js: the addfriend, unfriend and unfriendall commands.            *)
(***************************************************************************)
Ids == 1 .. NumIds
OwnerIds == {1}              \* cachefile.ownerid
Main == 0                    \* controller.main, the first bot account
NoArg == 0                   \* args[0] is missing
BadArg == NumIds + 1         \* an args[0] handleSteamIdResolving rejects
Args == NoArg .. BadArg

AddDelay == 5                \* setTimeout(..., 5000 * i)
RemoveDelay == 1             \* setTimeout(..., 1000 * i)
UnfriendAllPending == 30     \* setTimeout(..., 30000)

\* getBots(): the accounts with status ONLINE, in fleet order.
GetBots == InOrder({a \in Accounts : status[a] = "ONLINE"}, 0)

\* e.user.limitations && e.user.limitations.limited == true
IsLimitedNever(a) == FALSE
IsLimited(a) == limited[a]

\* !(e.user.myFriends[res] != 3 && e.user.myFriends[res] != 1)
FriendOrBlocked(a, id) == myFriends[a][id] = 3 \/ myFriends[a][id] = 1

\* The delay of the timer of the account at position i of the batch.
StaggerFlat(delay, i) == delay
Stagger(delay, i) == delay * i

\* setTimeout(callback, delay), called now for command c.
Timer(kind, acc, pos, id, delay, c) ==
    [kind |-> kind, acc |-> acc, pos |-> pos, id |-> id, delay |-> delay,
     due |-> now + delay, cmd |-> c]

\* The answers after which a command has looked at the accounts.
Processed ==
    {"addfriendcmdacclimited", "addfriendcmdsuccess", "unfriendcmdsuccess",
     "unfriendidcmdsuccess", "unfriendallcmdpending", "commentsuccess"}

\* The record of command c: what it answered and, when it got as far as
\* the accounts, what it saw of them.
Cmd(kind, outcome, id, abort) ==
    IF outcome \in Processed
      THEN [kind |-> kind, outcome |-> outcome, id |-> id, at |-> now,
            bots |-> GetBots,
            limitedThen |-> {a \in Accounts : limited[a]},
            friendThen |->
                {a \in Accounts : id \in Ids /\ FriendOrBlocked(a, id)},
            abort |-> abort]
      ELSE [kind |-> kind, outcome |-> outcome, id |-> NoArg, at |-> now,
            bots |-> <<>>, limitedThen |-> {}, friendThen |-> {},
            abort |-> abort]

\* addfriend: getBots().forEach((e, i) => ...): a limited account is logged
\* and skipped, a friend or blocked one is logged, the others get a timer.
AddFriendTimersBreak(bots, id, c) ==
    SelectSeq([i \in 1 .. Len(bots) |->
                  Timer("addFriend", bots[i], i - 1, id,
                        Stagger(AddDelay, i - 1), c)],
              LAMBDA t : /\ \A j \in 1 .. (t.pos + 1) : ~IsLimited(bots[j])
                         /\ ~FriendOrBlocked(t.acc, id))
AddFriendTimers(bots, id, c) ==
    SelectSeq([i \in 1 .. Len(bots) |->
                  Timer("addFriend", bots[i], i - 1, id,
                        Stagger(AddDelay, i - 1), c)],
              LAMBDA t : ~IsLimited(t.acc) /\ ~FriendOrBlocked(t.acc, id))

AddFriendLogs(bots, id, c) ==
    {[cmd |-> c, acc |-> bots[i], msg |-> "limited"] :
        i \in {j \in 1 .. Len(bots) : IsLimited(bots[j])}}
    \cup {[cmd |-> c, acc |-> bots[i], msg |-> "alreadyfriend"] :
        i \in {j \in 1 .. Len(bots) :
                  ~IsLimited(bots[j]) /\ FriendOrBlocked(bots[j], id)}}

AddFriendOutcomeAlwaysReady(arg) ==
    IF arg = NoArg \/ arg = BadArg THEN "invalidprofileid"
    ELSE IF IsLimited(Main) THEN "addfriendcmdacclimited"
    ELSE "addfriendcmdsuccess"
AddFriendOutcome(arg) ==
    IF info.readyAfter = 0 THEN "botnotready"
    ELSE IF arg = NoArg \/ arg = BadArg THEN "invalidprofileid"
    ELSE IF IsLimited(Main) THEN "addfriendcmdacclimited"
    ELSE "addfriendcmdsuccess"

\* The addfriend command with argument arg.
AddFriendCmd(arg) ==
    /\ Len(cmds) < MaxCmds
    /\ LET c == Len(cmds) + 1
           out == AddFriendOutcome(arg)
       IN /\ cmds' = Append(cmds, Cmd("addfriend", out, arg, FALSE))
          /\ timers' = IF out = "addfriendcmdsuccess"
                         THEN timers \o AddFriendTimers(GetBots, arg, c)
                         ELSE timers
          /\ errlog' = IF out = "addfriendcmdsuccess"
                         THEN errlog \cup AddFriendLogs(GetBots, arg, c)
                         ELSE errlog
    /\ UNCHANGED <<helperVars, ledgerVars, bootVars, now, proxyVars, loginVars, limited, myFriends, remoteCalls,
                   envChanges>>

\* unfriend: getBots().forEach((e, i) => setTimeout(..., 1000 * i))
RemoveTimers(bots, id, c) ==
    [i \in 1 .. Len(bots) |->
        Timer("removeFriend", bots[i], i - 1, id,
              Stagger(RemoveDelay, i - 1), c)]

\* The owners that count for a request: resInfo.ownerIDs if it has any,
\* cachefile.ownerid otherwise.
Owners(ownerIDs) == IF ownerIDs # {} THEN ownerIDs ELSE OwnerIds

UnfriendOutcomeAnyRequester(requester, arg, fromSteamChat, ownerIDs) ==
    IF info.readyAfter = 0 THEN "botnotready"
    ELSE IF arg = NoArg /\ ~fromSteamChat THEN "noidparam"
    ELSE IF arg = NoArg THEN "unfriendcmdsuccess"
    ELSE IF arg = BadArg THEN "invalidprofileid"
    ELSE IF arg \in OwnerIds THEN "idisownererror"
    ELSE "unfriendidcmdsuccess"
UnfriendOutcomeAnyTarget(requester, arg, fromSteamChat, ownerIDs) ==
    IF info.readyAfter = 0 THEN "botnotready"
    ELSE IF arg = NoArg /\ ~fromSteamChat THEN "noidparam"
    ELSE IF arg = NoArg THEN "unfriendcmdsuccess"
    ELSE IF requester \notin Owners(ownerIDs) THEN "commandowneronly"
    ELSE IF arg = BadArg THEN "invalidprofileid"
    ELSE "unfriendidcmdsuccess"
UnfriendOutcome(requester, arg, fromSteamChat, ownerIDs) ==
    IF info.readyAfter = 0 THEN "botnotready"
    ELSE IF arg = NoArg /\ ~fromSteamChat THEN "noidparam"
    ELSE IF arg = NoArg THEN "unfriendcmdsuccess"
    ELSE IF requester \notin Owners(ownerIDs) THEN "commandowneronly"
    ELSE IF arg = BadArg THEN "invalidprofileid"
    ELSE IF arg \in OwnerIds THEN "idisownererror"
    ELSE "unfriendidcmdsuccess"

\* The unfriend command of user requester with argument arg.
UnfriendCmd(requester, arg, fromSteamChat, ownerIDs) ==
    /\ Len(cmds) < MaxCmds
    /\ LET c == Len(cmds) + 1
           out == UnfriendOutcome(requester, arg, fromSteamChat, ownerIDs)
           id == IF arg = NoArg THEN requester ELSE arg
       IN /\ cmds' = Append(cmds, Cmd("unfriend", out, id, FALSE))
          /\ timers' = IF out \in {"unfriendcmdsuccess", "unfriendidcmdsuccess"}
                         THEN timers \o RemoveTimers(GetBots, id, c)
                         ELSE timers
    /\ UNCHANGED <<helperVars, ledgerVars, bootVars, now, proxyVars, loginVars, limited, myFriends, remoteCalls,
                   errlog, envChanges>>

\* The unfriendall command; abortunfriendall is a variable of this run.
UnfriendAllCmd(abort) ==
    /\ Len(cmds) < MaxCmds
    /\ LET c == Len(cmds) + 1
           out == IF info.readyAfter = 0 THEN "botnotready"
                  ELSE IF abort THEN "unfriendallcmdabort"
                  ELSE "unfriendallcmdpending"
       IN /\ cmds' = Append(cmds, Cmd("unfriendall", out, NoArg,
                                      out = "unfriendallcmdabort"))
          /\ timers' = IF out = "unfriendallcmdpending"
                         THEN Append(timers,
                                Timer("unfriendallStart", Main, 0, NoArg,
                                      UnfriendAllPending, c))
                         ELSE timers
    /\ UNCHANGED <<helperVars, ledgerVars, bootVars, now, proxyVars, loginVars, limited, myFriends, remoteCalls,
                   errlog, envChanges>>

\* unfriendall after its 30 seconds: for every i and every friend of
\* getBots()[i], setTimeout(..., 1000 * i).
UnfriendAllTimers(bots, c) ==
    SelectSeq([k \in 1 .. (Len(bots) * NumIds) |->
                  Timer("unfriendallRemove", bots[((k - 1) \div NumIds) + 1],
                        (k - 1) \div NumIds, ((k - 1) % NumIds) + 1,
                        Stagger(RemoveDelay, (k - 1) \div NumIds), c)],
              LAMBDA t : myFriends[t.acc][t.id] # 0)

Call(kind, acc, t, err) ==
    [kind |-> kind, acc |-> acc, id |-> t.id, at |-> now, cmd |-> t.cmd,
     err |-> err]

\* The remote calls that have failed so far.
Failures == Cardinality({i \in DOMAIN remoteCalls : remoteCalls[i].err})

Remove(seq, k) == [i \in 1 .. (Len(seq) - 1) |->
                      IF i < k THEN seq[i] ELSE seq[i + 1]]

\* Timers of one delay fire in the order they were set.
MayFire(k) ==
    /\ timers[k].due <= now
    /\ \A j \in 1 .. (k - 1) :
          ~(timers[j].due <= now /\ timers[j].delay = timers[k].delay)

\* The timers left after the callback of addFriend has run for timer t:
\* (err) => logger(...) only logs, the other timers are untouched.
AddFriendCallbackAborts(rest, t, err) ==
    IF err THEN SelectSeq(rest, LAMBDA x : x.cmd # t.cmd) ELSE rest
AddFriendCallback(rest, t, err) == rest

\* The callback of timer k runs.
TimerFires(k) ==
    /\ MayFire(k)
    /\ LET t == timers[k]
           rest == Remove(timers, k)
       IN CASE t.kind = "addFriend" ->
                 \* e.user.addFriend(new SteamID(res), (err) => ...)
                 \E err \in {FALSE} \cup {Failures < MaxFailures} :
                    /\ remoteCalls' = Append(remoteCalls,
                                         Call("addFriend", t.acc, t, err))
                    /\ errlog' = IF err
                        THEN errlog \cup
                             {[cmd |-> t.cmd, acc |-> t.acc, msg |-> "adderror"]}
                        ELSE errlog
                    /\ timers' = AddFriendCallback(rest, t, err)
                    /\ UNCHANGED cmds
            [] t.kind = "removeFriend" ->
                 \* e.user.removeFriend(new SteamID(res))
                 /\ remoteCalls' = Append(remoteCalls,
                                      Call("removeFriend", t.acc, t, FALSE))
                 /\ timers' = rest
                 /\ UNCHANGED <<cmds, errlog>>
            [] t.kind = "unfriendallStart" ->
                 IF cmds[t.cmd].abort
                   THEN /\ errlog' = errlog \cup
                             {[cmd |-> t.cmd, acc |-> Main, msg |-> "aborted"]}
                        /\ timers' = rest
                        /\ UNCHANGED <<cmds, remoteCalls>>
                   ELSE /\ timers' = rest \o UnfriendAllTimers(GetBots, t.cmd)
                        /\ cmds' = [cmds EXCEPT
                                      ![t.cmd].outcome = "unfriendallcmdstart",
                                      ![t.cmd].bots = GetBots]
                        /\ UNCHANGED <<remoteCalls, errlog>>
            [] OTHER ->
                 \* unfriendallRemove: the owner is skipped; the call is
                 \* made by getBots()[i] as it is now.
                 /\ timers' = rest
                 /\ UNCHANGED cmds
                 /\ IF t.id \in OwnerIds
                      THEN UNCHANGED <<remoteCalls, errlog>>
                      ELSE IF t.pos < Len(GetBots)
                        THEN /\ remoteCalls' = Append(remoteCalls,
                                    Call("removeFriend", GetBots[t.pos + 1],
                                         t, FALSE))
                             /\ UNCHANGED errlog
                        ELSE /\ errlog' = errlog \cup
                                    {[cmd |-> t.cmd, acc |-> t.acc,
                                      msg |-> "TypeError"]}
                             /\ UNCHANGED remoteCalls
    /\ UNCHANGED <<helperVars, ledgerVars, bootVars, now, proxyVars, loginVars, limited, myFriends, envChanges>>

\* A comment request for profile id served by account a: limitation does
\* not stop it.
CommentCmd(a, id) ==
    /\ Len(cmds) < MaxCmds
    /\ info.readyAfter # 0
    /\ status[a] = "ONLINE"
    /\ cmds' = Append(cmds, Cmd("comment", "commentsuccess", id, FALSE))
    /\ remoteCalls' = Append(remoteCalls,
            [kind |-> "postComment", acc |-> a, id |-> id, at |-> now,
             cmd |-> Len(cmds) + 1, err |-> FALSE])
    /\ UNCHANGED <<helperVars, ledgerVars, bootVars, now, proxyVars, loginVars, limited, myFriends, timers,
                   errlog, envChanges>>

\* The ready event: readyAfter becomes the length of the startup.
ReadyInfoResetsLogin(i) == [i EXCEPT !.readyAfter = 1, !.lastLoginTimestamp = 0]
ReadyInfo(i) == [i EXCEPT !.readyAfter = 1]
ReadyEvent ==
    /\ info.readyAfter = 0
    /\ info' = ReadyInfo(info)
    /\ UNCHANGED <<helperVars, ledgerVars, bootVars, now, proxyVars, status, loginQueue, loginProc, retries,
                   loginStarts, friendVars>>

\* Steam reports a change of the limitation of account a.
LimitationChanged(a) ==
    /\ envChanges < MaxEnv
    /\ limited' = [limited EXCEPT ![a] = ~@]
    /\ envChanges' = envChanges + 1
    /\ UNCHANGED <<helperVars, ledgerVars, bootVars, now, proxyVars, loginVars, myFriends, timers, remoteCalls,
                   cmds, errlog>>

\* Account a loses its connection or is back online.
StatusChanged(a) ==
    /\ envChanges < MaxEnv
    /\ status[a] \in {"ONLINE", "DISCONNECTED"}
    /\ status' = [status EXCEPT ![a] =
                    IF @ = "ONLINE" THEN "DISCONNECTED" ELSE "ONLINE"]
    /\ envChanges' = envChanges + 1
    /\ UNCHANGED <<helperVars, ledgerVars, bootVars, now, proxyVars, info, loginQueue, loginProc, retries,
                   loginStarts, limited, myFriends, timers, remoteCalls, cmds,
                   errlog>>

\* Steam reports a new relationship of account a with id
\* (0: none, 3: friend; friend.js treats 1: blocked like 3).
RelationshipChanged(a, id, rel) ==
    /\ envChanges < MaxEnv
    /\ myFriends[a][id] # rel
    /\ myFriends' = [myFriends EXCEPT ![a][id] = rel]
    /\ envChanges' = envChanges + 1
    /\ UNCHANGED <<helperVars, ledgerVars, bootVars, now, proxyVars, loginVars, limited, timers, remoteCalls,
                   cmds, errlog>>

\* The clock moves on, by one second or to the next timer; a timer that is
\* due fires first.
FriendTick ==
    /\ \A k \in DOMAIN timers : timers[k].due > now
    /\ \E t \in ({now + 1} \cup {timers[k].due : k \in DOMAIN timers}) :
          /\ t > now
          /\ t = now + 1 => (now < MaxIssueTime \/ \E k \in DOMAIN timers : timers[k].due = t)
          /\ \A k \in DOMAIN timers : t <= timers[k].due
          /\ now' = t
    /\ UNCHANGED <<helperVars, ledgerVars, bootVars, proxyVars, loginVars, friendVars>>

FriendState0 ==
    /\ limited = [a \in Accounts |-> FALSE]
    /\ myFriends = [a \in Accounts |-> [id \in Ids |-> 0]]
    /\ timers = <<>>
    /\ remoteCalls = <<>>
    /\ cmds = <<>>
    /\ errlog = {}
    /\ envChanges = 0

\* The accounts are logged in and the commands arrive; no account has a
\* friend yet.
FriendInit ==
    /\ now = 1
    /\ ProxyState0
    /\ info = InfoInit
    /\ status = [a \in Accounts |-> "ONLINE"]
    /\ loginQueue = <<>>
    /\ loginProc = IdleProc
    /\ retries = [a \in Accounts |-> 0]
    /\ loginStarts = <<>>
    /\ FriendState0
    /\ BootState0
    /\ HelperState0

\* What happens to the accounts while the commands run.
Environment ==
    \/ ReadyEvent
    \/ \E a \in Accounts : LimitationChanged(a)
    \/ \E a \in Accounts : StatusChanged(a)
    \/ \E a \in Accounts : \E id \in Ids : \E rel \in {0, 3} :
          RelationshipChanged(a, id, rel)
    \/ FriendTick

\* The addfriend and unfriend commands (and comment requests).
FriendNext ==
    \/ \E arg \in Args : AddFriendCmd(arg)
    \/ \E requester \in Ids : \E arg \in Args : \E chat \in BOOLEAN :
          \E ownerIDs \in {{}, {NumIds}} :
              UnfriendCmd(requester, arg, chat, ownerIDs)
    \/ \E a \in Accounts : CommentCmd(a, NumIds)
    \/ \E k \in DOMAIN timers : TimerFires(k)
    \/ Environment

FriendSpec == FriendInit /\ [][FriendNext]_vars

\* The unfriendall command.
UnfriendAllNext ==
    \/ \E abort \in BOOLEAN : UnfriendAllCmd(abort)
    \/ \E k \in DOMAIN timers : TimerFires(k)
    \/ Environment

\* unfriendall is for accounts that have friends: each account starts with
\* no friend or with every steamID as a friend.
UnfriendAllInit ==
    /\ now = 1
    /\ ProxyState0
    /\ info = InfoInit
    /\ status = [a \in Accounts |-> "ONLINE"]
    /\ loginQueue = <<>>
    /\ loginProc = IdleProc
    /\ retries = [a \in Accounts |-> 0]
    /\ loginStarts = <<>>
    /\ limited = [a \in Accounts |-> FALSE]
    /\ \E rel \in [Accounts -> {0, 3}] :
          myFriends = [a \in Accounts |-> [id \in Ids |-> rel[a]]]
    /\ timers = <<>>
    /\ remoteCalls = <<>>
    /\ cmds = <<>>
    /\ errlog = {}
    /\ envChanges = 0
    /\ BootState0
    /\ HelperState0

UnfriendAllSpec == UnfriendAllInit /\ [][UnfriendAllNext]_vars

\* The three commands together, before and after the ready event, for
\* accounts that have friends.
CommandNext ==
    \/ \E arg \in Args : AddFriendCmd(arg)
    \/ \E requester \in Ids : \E arg \in Args : \E chat \in BOOLEAN :
          \E ownerIDs \in {{}, {NumIds}} :
              UnfriendCmd(requester, arg, chat, ownerIDs)
    \/ \E abort \in BOOLEAN : UnfriendAllCmd(abort)
    \/ \E k \in DOMAIN timers : TimerFires(k)
    \/ ReadyEvent
    \/ FriendTick

CommandSpec == UnfriendAllInit /\ [][CommandNext]_vars

(***************************************************************************)
(* controller/helpers/limitedcheck.js                                      *)
(***************************************************************************)
MaxBots == 3         \* accounts in the botobject given to check

\* What an account of botobject has as user limitations: no limitations
\* object, one without the limited field, limited true or limited false.
Limitations == {"undefined", "limitedUndefined", "limited", "unlimited"}

\* The botobjects, as the limitations of their accounts in key order.
BotObjects == UNION {[1 .. n -> Limitations] : n \in 0 .. MaxBots}

\* limitations != undefined && limitations.limited != undefined
CheckedLax(e) == e # "undefined"
Checked(e) == e # "undefined" /\ e # "limitedUndefined"

RECURSIVE Iterate(_, _, _)
\* for (var i = 0; i < Object.keys(botobject).length; i++) { ... } from
\* iteration i on (counted from 1); st holds limitedaccs, failedtocheck and
\* the calls of callback made so far. The callback returns normally and every
\* key of botobject holds a bot, so the catch block is not entered.
Iterate(botobject, i, st) ==
    IF i > Len(botobject) THEN st
    ELSE LET e == botobject[i]
             l == IF Checked(e) /\ e = "limited"
                    THEN st.limitedaccs + 1 ELSE st.limitedaccs
             f == IF Checked(e) THEN st.failedtocheck
                                ELSE st.failedtocheck + 1
         IN Iterate(botobject, i + 1,
                [limitedaccs |-> l, failedtocheck |-> f,
                 callbacks |->
                    IF i = Len(botobject) /\ l > 0
                      THEN Append(st.callbacks,
                                  [limitedaccs |-> l, failedtocheck |-> f])
                      ELSE st.callbacks])

LimitedCheckCalled(botobject) ==
    [pc |-> "called", botobject |-> botobject, limitedaccs |-> 0,
     failedtocheck |-> 0, callbacks |-> <<>>]

\* module.exports.check(botobject, callback) runs to its end.
check ==
    /\ limitedcheck.pc = "called"
    /\ LET r == Iterate(limitedcheck.botobject, 1,
                        [limitedaccs |-> 0, failedtocheck |-> 0,
                         callbacks |-> <<>>])
       IN limitedcheck' = [limitedcheck EXCEPT
                              !.pc = "completed",
                              !.limitedaccs = r.limitedaccs,
                              !.failedtocheck = r.failedtocheck,
                              !.callbacks = r.callbacks]
    /\ UNCHANGED <<now, proxyVars, loginVars, friendVars, bootVars,
                   ledgerVars, npm>>

(***************************************************************************)
(* controller/helpers/npminteraction.js                                    *)
(***************************************************************************)
Paths == {"srcdir/..", "custom"}
Stdouts == {"", "added"}

\* reinstallAll(logger, callback) up to its await: node_modules is created if
\* it is missing; mkdirSync throwing rejects the promise of the function.
reinstallAll(exists, mkdirThrows) ==
    /\ npm.pc = "idle"
    /\ npm' = [npm EXCEPT
                 !.fn = "reinstallAll",
                 !.path = "srcdir/..",
                 !.steps = IF exists THEN <<>> ELSE <<"mkdirSync">>,
                 !.pc = IF ~exists /\ mkdirThrows THEN "rejected"
                                                  ELSE "checkAndGetFile"]
    /\ UNCHANGED <<now, proxyVars, loginVars, friendVars, bootVars,
                   ledgerVars, limitedcheck>>

\* await checkAndGetFile("./package.json", ...) resolves; fs.rm is called.
CheckAndGetFileResolves ==
    /\ npm.pc = "checkAndGetFile"
    /\ npm' = [npm EXCEPT !.steps = Append(@, "rm"), !.pc = "rm"]
    /\ UNCHANGED <<now, proxyVars, loginVars, friendVars, bootVars,
                   ledgerVars, limitedcheck>>

\* The callback of fs.rm: (err) => { if (err) return callback(err, null);
\* ... exec("npm install --production", ...) }
RmCallback(err) ==
    /\ npm.pc = "rm"
    /\ npm' = IF err
                THEN [npm EXCEPT
                        !.callbacks = Append(@, [err |-> "err",
                                                 stdout |-> "null"]),
                        !.pc = "completed"]
                ELSE [npm EXCEPT !.steps = Append(@, "npm install"),
                                 !.pc = "exec"]
    /\ UNCHANGED <<now, proxyVars, loginVars, friendVars, bootVars,
                   ledgerVars, limitedcheck>>

\* updateFromPath(path, callback): exec("npm install --production", ...);
\* update(callback) is updateFromPath(srcdir + "/..", callback).
updateFromPath(path) ==
    /\ npm.pc = "idle"
    /\ npm' = [npm EXCEPT !.fn = "updateFromPath", !.path = path,
                          !.steps = <<"npm install">>, !.pc = "exec"]
    /\ UNCHANGED <<now, proxyVars, loginVars, friendVars, bootVars,
                   ledgerVars, limitedcheck>>

\* What the callback of exec passes on.
ExecResult(err, stdout) ==
    IF err THEN [err |-> "err", stdout |-> "null"]
           ELSE [err |-> "null", stdout |-> stdout]

\* The callback of exec: (err, stdout) => { if (err) return callback(err,
\* null); callback(null, stdout) }
ExecCallback(err, stdout) ==
    /\ npm.pc = "exec"
    /\ npm' = [npm EXCEPT !.callbacks = Append(@, ExecResult(err, stdout)),
                          !.pc = "completed"]
    /\ UNCHANGED <<now, proxyVars, loginVars, friendVars, bootVars,
                   ledgerVars, limitedcheck>>

\* check is called with some botobject; no npm function has been called yet.
HelperInit ==
    /\ now = 1
    /\ ProxyState0
    /\ LoginState0
    /\ FriendState0
    /\ BootState0
    /\ \E botobject \in BotObjects :
          limitedcheck = LimitedCheckCalled(botobject)
    /\ npm = NpmIdle

HelperNext ==
    \/ check
    \/ \E exists, mkdirThrows \in BOOLEAN : reinstallAll(exists, mkdirThrows)
    \/ CheckAndGetFileResolves
    \/ \E err \in BOOLEAN : RmCallback(err)
    \/ \E path \in Paths : updateFromPath(path)
    \/ \E err \in BOOLEAN : \E stdout \in Stdouts : ExecCallback(err, stdout)

HelperSpec == HelperInit /\ [][HelperNext]_vars

(***************************************************************************)
(* controller.js: friendListCapacityCheck and _lastcommentUnfriendCheck.   *)
(* Only their declarations are in controller.js; what they do is taken     *)
(* from their descriptions there and from the specification.               *)
(***************************************************************************)
MaxCapacity == 2     \* friendlist limit of an account
WarnThreshold == 10  \* a warning is sent below this remaining space
UnfriendTime == 1    \* config.unfriendtime, in units of the clock

\* The friends of account a, as Steam reports them.
FriendCount(a) == Cardinality({id \in Ids : myFriends[a][id] = 3})

Remaining(a) == MaxCapacity - FriendCount(a)

\* The entry of list l with the earliest time, the first inserted of them.
OldestLastInserted(l) ==
    l[CHOOSE i \in DOMAIN l :
        /\ \A j \in DOMAIN l : l[i].time <= l[j].time
        /\ \A j \in DOMAIN l : l[j].time = l[i].time => j <= i]
Oldest(l) ==
    l[CHOOSE i \in DOMAIN l :
        /\ \A j \in DOMAIN l : l[i].time <= l[j].time
        /\ \A j \in DOMAIN l : l[j].time = l[i].time => i <= j]

\* The removals of account a queued and not made yet.
PendingNone(a) == {}
Pending(a) ==
    {removalQueue[i].peer :
        i \in {j \in DOMAIN removalQueue :
                  removalQueue[j].acc = a /\ ~removalQueue[j].done}}

Removal(a, peer, by) ==
    [acc |-> a, peer |-> peer, by |-> by, check |-> Len(checks) + 1,
     done |-> FALSE]

\* A user becomes friend of account a; checkLastcommentDB sees to it that
\* every friend is in the lastcomment database.
Befriend(a, id) ==
    /\ status[a] = "ONLINE"
    /\ myFriends[a][id] = 0
    /\ Remaining(a) >= 1
    /\ envChanges < MaxLedgerChanges
    /\ envChanges' = envChanges + 1
    /\ myFriends' = [myFriends EXCEPT ![a][id] = 3]
    /\ lastcomment' = [lastcomment EXCEPT
                          ![a] = Append(@, [peer |-> id, time |-> now])]
    /\ UNCHANGED <<helperVars, now, proxyVars, loginVars, bootVars, limited, timers,
                   remoteCalls, cmds, errlog, removalQueue, checks>>

\* Friend id of account a requests comments: its entry gets the time.
Interact(a, id) ==
    /\ envChanges < MaxLedgerChanges
    /\ envChanges' = envChanges + 1
    /\ \E i \in DOMAIN lastcomment[a] :
          /\ lastcomment[a][i].peer = id
          /\ lastcomment[a][i].time < now
          /\ lastcomment' = [lastcomment EXCEPT ![a][i].time = now]
    /\ UNCHANGED <<helperVars, now, proxyVars, loginVars, bootVars, limited, myFriends,
                   timers, remoteCalls, cmds, errlog, removalQueue, checks>>

\* friendListCapacityCheck(bot, callback): a warning below WarnThreshold;
\* with no space left the oldest lastcomment user is queued for removal.
friendListCapacityCheck(a) ==
    /\ Len(checks) < MaxChecks
    /\ status[a] = "ONLINE"
    /\ checks' = Append(checks,
            [kind |-> "capacity", acc |-> a, at |-> now,
             warned |-> Remaining(a) < WarnThreshold])
    /\ removalQueue' =
          IF Remaining(a) < 1 /\ lastcomment[a] # <<>>
            THEN Append(removalQueue,
                        Removal(a, Oldest(lastcomment[a]).peer, "capacity"))
            ELSE removalQueue
    /\ UNCHANGED <<helperVars, now, proxyVars, loginVars, bootVars, friendVars, lastcomment>>

\* The entries of account a older than config.unfriendtime whose removal is
\* not pending, in the order of the database.
Expired(a) ==
    SelectSeq(lastcomment[a],
              LAMBDA e : now - e.time > UnfriendTime /\ e.peer \notin Pending(a))

RECURSIVE ExpiredRemovals(_)
\* The removals a sweep queues, for the online accounts from index a on.
ExpiredRemovals(a) ==
    IF a >= NumAccounts THEN <<>>
    ELSE (IF status[a] = "ONLINE"
            THEN [i \in DOMAIN Expired(a) |->
                     Removal(a, Expired(a)[i].peer, "expiry")]
            ELSE <<>>)
         \o ExpiredRemovals(a + 1)

\* _lastcommentUnfriendCheck(): run by a timer.
lastcommentUnfriendCheck ==
    /\ Len(checks) < MaxChecks
    /\ checks' = Append(checks,
            [kind |-> "sweep", acc |-> Main, at |-> now, warned |-> FALSE])
    /\ removalQueue' = removalQueue \o ExpiredRemovals(0)
    /\ UNCHANGED <<helperVars, now, proxyVars, loginVars, bootVars, friendVars, lastcomment>>

\* The first queued removal not made yet is made: the account unfriends the
\* peer and its entry leaves the database.
RemovalMade ==
    \E i \in DOMAIN removalQueue :
        /\ ~removalQueue[i].done
        /\ \A j \in 1 .. (i - 1) : removalQueue[j].done
        /\ LET r == removalQueue[i]
           IN /\ removalQueue' = [removalQueue EXCEPT ![i].done = TRUE]
              /\ myFriends' = [myFriends EXCEPT ![r.acc][r.peer] = 0]
              /\ lastcomment' = [lastcomment EXCEPT
                    ![r.acc] = SelectSeq(@, LAMBDA e : e.peer # r.peer)]
        /\ UNCHANGED <<helperVars, now, proxyVars, loginVars, bootVars, limited,
                       timers, remoteCalls, cmds, errlog, envChanges, checks>>

LedgerTick ==
    /\ now < MaxLedgerTime
    /\ now' = now + 1
    /\ UNCHANGED <<helperVars, proxyVars, loginVars, friendVars, bootVars, ledgerVars>>

\* The accounts are online, nobody is a friend yet.
CapacityInit ==
    /\ now = 1
    /\ ProxyState0
    /\ info = InfoInit
    /\ status = [a \in Accounts |-> "ONLINE"]
    /\ loginQueue = <<>>
    /\ loginProc = IdleProc
    /\ retries = [a \in Accounts |-> 0]
    /\ loginStarts = <<>>
    /\ FriendState0
    /\ BootState0
    /\ HelperState0

CapacityNext ==
    \/ \E a \in Accounts : \E id \in Ids : Befriend(a, id)
    \/ \E a \in Accounts : \E id \in Ids : Interact(a, id)
    \/ \E a \in Accounts : friendListCapacityCheck(a)
    \/ lastcommentUnfriendCheck
    \/ RemovalMade
    \/ \E a \in Accounts : StatusChanged(a)
    \/ LedgerTick

CapacitySpec == CapacityInit /\ [][CapacityNext]_vars

\* Boot, restart and stop of the process.
RestartInit ==
    /\ now = 1
    /\ ProxyState0
    /\ LoginState0
    /\ FriendState0
    /\ BootState0
    /\ HelperState0

RestartNext ==
    \/ \E m \in Msgs : LogHeldBack(m)
    \/ \E found \in BOOLEAN : StartErrorHandler(found)
    \/ \E found \in BOOLEAN : StartLogger(found)
    \/ \E found \in BOOLEAN : StartMisc(found)
    \/ \E reachable \in BOOLEAN : StartConnection(reachable)
    \/ \E found, supported \in BOOLEAN : StartDataManager(found, supported)
    \/ \E passed \in BOOLEAN : StartCheckData(passed)
    \/ \E found, updateFound \in BOOLEAN : StartUpdater(found, updateFound)
    \/ \E found \in BOOLEAN : PreLogin(found)
    \/ \E a \in Accounts : SkipAccount(a)
    \/ \E data \in {NoData} \cup ExplicitPayloads : Restart(data)
    \/ Stop
    \/ HostHandles

RestartSpec == RestartInit /\ [][RestartNext]_vars

LoginInit ==
    /\ now = 1
    /\ ProxyState0
    /\ LoginState0
    /\ FriendState0
    /\ BootState0
    /\ HelperState0

LoginNext ==
    \/ Login
    \/ LoginDequeue
    \/ LoginAttemptStarts
    \/ \E o \in {"success", "transient", "fatal"} : LoginAttemptEnds(o)
    \/ LoginFinishes
    \/ \E a \in Accounts : Disconnect(a)
    \/ \E v \in BOOLEAN : SetRelogAfterDisconnect(v)
    \/ LoginTick

LoginSpec == LoginInit /\ [][LoginNext]_vars

(***************************************************************************)
(* One process from its construction on: it boots, _preLogin calls login,  *)
(* and once the accounts are logged in the bot is ready and serves         *)
(* commands, checks its proxies and counts its limited accounts.           *)
(***************************************************************************)
FleetInit ==
    /\ now = 1
    /\ ProxyState0
    /\ LoginState0
    /\ FriendState0
    /\ BootState0
    /\ \E botobject \in {<<>>, <<"limited", "undefined">>} :
          limitedcheck = LimitedCheckCalled(botobject)
    /\ npm = NpmIdle

\* The stages of the run: login(true) has been called by _preLogin of the
\* first process and no login process is left; the ready event has come;
\* the limited accounts are counted; the proxy checks are over; the
\* commands are served.
LoggedIn ==
    /\ boot.pc = "running"
    /\ boot.from = 0
    /\ ~info.activeLogin
    /\ loginStarts # <<>>
Ready == LoggedIn /\ info.readyAfter # 0
Counted == Ready /\ limitedcheck.pc = "completed"
ProxiesChecked ==
    /\ Counted
    /\ calls # <<>>
    /\ \A c \in DOMAIN calls : calls[c].phase = "returned"
Idle == sent = <<>> /\ timers = <<>>
Served == ProxiesChecked /\ cmds # <<>> /\ timers = <<>>

\* The operations come one after the other, each with one input or two.
FleetNext ==
    \/ StartErrorHandler(TRUE)
    \/ StartLogger(TRUE)
    \/ StartMisc(TRUE)
    \/ \E reachable \in BOOLEAN : StartConnection(reachable)
    \/ StartDataManager(TRUE, TRUE)
    \/ \E passed \in BOOLEAN : StartCheckData(passed)
    \/ StartUpdater(TRUE, FALSE)
    \/ PreLogin(TRUE)
    \/ boot.pc = "running" /\ boot.from = 0 /\ sent = <<>> /\ Login
    \/ LoginDequeue
    \/ LoginAttemptStarts
    \/ \E o \in {"success", "fatal"} : LoginAttemptEnds(o)
    \/ LoginFinishes
    \/ loginProc.phase = "waiting" /\ LoginTick
    \/ LoggedIn /\ ReadyEvent
    \/ Ready /\ check
    \/ Counted /\ calls = <<>> /\ CheckProxy(0)
    \/ \E c \in DOMAIN calls :
          \E probe \in {NoProbe, [resolved |-> TRUE, statusCode |-> 200]} :
              ProbeSettles(c, probe)
    \/ \E c \in DOMAIN calls : CheckProxyReturns(c)
    \/ ProxiesChecked /\ Idle /\ AddFriendCmd(2)
    \/ ProxiesChecked /\ Idle /\ UnfriendCmd(2, 3, TRUE, {})
    \/ ProxiesChecked /\ Idle /\ UnfriendAllCmd(FALSE)
    \/ \E k \in DOMAIN timers : TimerFires(k)
    \/ FriendTick
    \/ Served /\ Restart(NoData)
    \/ Served /\ Stop
    \/ HostHandles

FleetSpec == FleetInit /\ [][FleetNext]_vars

\* The proxy of bot account a: the accounts are spread over the proxies in
\* turn, so that a proxy may serve several accounts.
ProxyOf(a) == a % NumProxies

\* getBotsPerProxy(filterOffline): the bot accounts mapped to their proxy,
\* in the order of the proxies; filterOffline removes the offline proxies.
GetBotsPerProxyKeepsOffline(filterOffline) ==
    [i \in 1 .. NumProxies |->
        [bots |-> {a \in Accounts : ProxyOf(a) = i - 1},
         proxy |-> proxies[i - 1].proxy,
         proxyIndex |-> proxies[i - 1].proxyIndex,
         isOnline |-> proxies[i - 1].isOnline,
         lastOnlineCheck |-> proxies[i - 1].lastOnlineCheck]]
getBotsPerProxy(filterOffline) ==
    SelectSeq([i \in 1 .. NumProxies |->
                  [bots |-> {a \in Accounts : ProxyOf(a) = i - 1},
                   proxy |-> proxies[i - 1].proxy,
                   proxyIndex |-> proxies[i - 1].proxyIndex,
                   isOnline |-> proxies[i - 1].isOnline,
                   lastOnlineCheck |-> proxies[i - 1].lastOnlineCheck]],
              LAMBDA e : ~filterOffline \/ e.isOnline)

ProxyInit ==
    /\ now = 1
    /\ ProxyState0
    /\ LoginState0
    /\ FriendState0
    /\ BootState0
    /\ HelperState0

ProxyNext ==
    \/ \E p \in ProxyIndexes : CheckProxy(p)
    \/ CheckAllProxies
    \/ \E c \in DOMAIN calls : \E probe \in Probes : ProbeSettles(c, probe)
    \/ \E c \in DOMAIN calls : CheckProxyReturns(c)
    \/ \E b \in DOMAIN allChecks : CheckAllSettles(b)
    \/ ProxyTick

ProxySpec == ProxyInit /\ [][ProxyNext]_vars

(***************************************************************************)
(* Claims about the proxy checks (under ProxySpec).                        *)
(***************************************************************************)

\* C3: checkAllProxies() resolves only after the checkProxy of every entry
\* of the proxies list has completed: once it has resolved, every proxy has
\* a returned check of this invocation and a lastOnlineCheck written since
\* the invocation started.
C3_ResolvesAfterEveryCheck ==
    \A b \in DOMAIN allChecks :
        allChecks[b].phase = "resolved" =>
            \A p \in ProxyIndexes :
                /\ \E i \in DOMAIN allChecks[b].promiseArr :
                      /\ calls[allChecks[b].promiseArr[i]].proxyIndex = p
                      /\ calls[allChecks[b].promiseArr[i]].phase = "returned"
                /\ proxies[p].lastOnlineCheck >= allChecks[b].startedAt

\* A checkAllProxies() has resolved after probes of different outcomes.
C3_Witness ==
    \E b \in DOMAIN allChecks :
        /\ allChecks[b].phase = "resolved"
        /\ \E p, q \in ProxyIndexes : proxies[p].isOnline /\ ~proxies[q].isOnline

\* C4: checkProxy never rejects, and a failed probe leaves isOnline = FALSE
\* (read while no other check of the same proxy is in flight), for the
\* direct-connection record as for the others.
C4_CheckProxyNeverRejects ==
    \A c \in DOMAIN calls :
        /\ calls[c].phase # "rejected"
        /\ (calls[c].phase = "settled" /\ ~calls[c].probe.resolved
                /\ ~calls[c].overlap)
              => ~proxies[calls[c].proxyIndex].isOnline

\* The probe of the direct-connection record has failed and its check returned.
C4_Witness ==
    \E c \in DOMAIN calls :
        /\ calls[c].phase = "returned"
        /\ ~calls[c].overlap
        /\ proxies[calls[c].proxyIndex].proxy = "null"
        /\ lastReturn = [call |-> c, value |-> FALSE]

\* C5: when checkProxy(i) returns without another check of proxy i having
\* been in flight, isOnline is TRUE exactly if the probe resolved with a
\* status code in 200..299, lastOnlineCheck is the time of the return and the
\* returned value is that isOnline.
C5_CheckProxyResult ==
    [][\A c \in DOMAIN calls :
          (calls[c].phase = "settled" /\ calls'[c].phase = "returned"
              /\ ~calls'[c].overlap)
            => LET p == calls[c].proxyIndex
               IN /\ proxies'[p].isOnline =
                        (calls[c].probe.resolved
                            /\ calls[c].probe.statusCode \in 200 .. 299)
                  /\ proxies'[p].lastOnlineCheck = now'
                  /\ lastReturn' = [call |-> c, value |-> proxies'[p].isOnline]
      ]_vars

\* A check returned TRUE on its own, after the clock had moved on.
C5_Witness ==
    /\ lastReturn.call # 0
    /\ lastReturn.value
    /\ ~calls[lastReturn.call].overlap
    /\ proxies[calls[lastReturn.call].proxyIndex].lastOnlineCheck > 1

\* The accounts in the groups of a proxy-to-accounts view.
Grouped(view) == UNION {view[i].bots : i \in DOMAIN view}

\* C21: when the probe of a check of proxy P fails, the proxy-to-accounts
\* view has one group holding every account P serves and reports isOnline =
\* FALSE for it, with filterOffline none of these accounts is in the view,
\* and no probe was issued besides the one of the proxy.
C21_OfflineProxyGroup ==
    [][\A c \in DOMAIN calls :
          (/\ calls[c].phase = "probing"
           /\ calls'[c].phase = "settled"
           /\ ~(calls'[c].probe.resolved
                  /\ calls'[c].probe.statusCode \in 200 .. 299))
            => LET P == calls[c].proxyIndex
                   served == {a \in Accounts : ProxyOf(a) = P}
               IN /\ \E i \in DOMAIN getBotsPerProxy(FALSE)' :
                        /\ getBotsPerProxy(FALSE)'[i].proxyIndex = P
                        /\ getBotsPerProxy(FALSE)'[i].bots = served
                        /\ ~getBotsPerProxy(FALSE)'[i].isOnline
                  /\ \A i \in DOMAIN getBotsPerProxy(FALSE)' :
                        getBotsPerProxy(FALSE)'[i].proxyIndex # P =>
                           getBotsPerProxy(FALSE)'[i].bots \cap served = {}
                  /\ Grouped(getBotsPerProxy(TRUE))' \cap served = {}
                  /\ Len(calls') = Len(calls)
      ]_vars

\* The one check made of a proxy serving two accounts has failed: the view
\* reports the group of both offline and the filtered view has neither.
C21_Witness ==
    \E c \in DOMAIN calls : \E A, B \in Accounts :
        /\ A # B
        /\ ProxyOf(A) = calls[c].proxyIndex
        /\ ProxyOf(B) = calls[c].proxyIndex
        /\ Len(calls) = 1
        /\ calls[c].phase = "settled"
        /\ ~calls[c].probe.resolved
        /\ \E i \in DOMAIN getBotsPerProxy(FALSE) :
              /\ {A, B} \subseteq getBotsPerProxy(FALSE)[i].bots
              /\ ~getBotsPerProxy(FALSE)[i].isOnline
        /\ {A, B} \cap Grouped(getBotsPerProxy(TRUE)) = {}
        /\ Grouped(getBotsPerProxy(TRUE)) # {}

(***************************************************************************)
(* Claims about the login scheduler (under LoginSpec).                     *)
(***************************************************************************)

\* C1: at most one account session has status LOGGING_IN.
C1_AtMostOneLoggingIn ==
    Cardinality({a \in Accounts : status[a] = "LOGGING_IN"}) <= 1

\* One session is logging in while another is online and a third one waits
\* in the queue.
C1_Witness ==
    /\ \E a \in Accounts : status[a] = "LOGGING_IN"
    /\ \E a \in Accounts : status[a] = "ONLINE"
    /\ loginQueue # <<>>

\* C2: two consecutive login attempts start at least MinSpacing apart,
\* whatever the outcome of the first.
C2_LoginSpacing ==
    \A k \in 2 .. Len(loginStarts) :
        loginStarts[k].at >= loginStarts[k - 1].at + MinSpacing

\* Three accounts have started their login, one attempt having failed, each
\* exactly MinSpacing after the one before.
C2_Witness ==
    /\ Len(loginStarts) = 3
    /\ Cardinality({loginStarts[k].acc : k \in 1 .. 3}) = 3
    /\ loginStarts[2].at = loginStarts[1].at + MinSpacing
    /\ loginStarts[3].at = loginStarts[2].at + MinSpacing
    /\ \E a \in Accounts : status[a] = "ERROR"

(***************************************************************************)
(* Claims about the friend commands (under FriendSpec, UnfriendAllSpec).   *)
(***************************************************************************)
Range(seq) == {seq[i] : i \in DOMAIN seq}

\* The accounts with a pending timer or a remote call made for command c.
TimerAccs(c) == {timers[k].acc : k \in {j \in DOMAIN timers : timers[j].cmd = c}}
CallAccs(c) ==
    {remoteCalls[i].acc : i \in {j \in DOMAIN remoteCalls : remoteCalls[j].cmd = c}}

AddCmds ==
    {c \in DOMAIN cmds :
        /\ cmds[c].kind = "addfriend"
        /\ cmds[c].outcome \in {"addfriendcmdsuccess", "addfriendcmdacclimited"}}

\* C6: an addfriend request on an account that is limited is dropped with a
\* reported error (the logged error, or the refusal of the command when the
\* main account is the limited one) and that account gets no timer and makes
\* no addFriend call for it; a comment request is served whatever the
\* limitation of the account.
C6_LimitedAccountAddsNobody ==
    /\ \A c \in AddCmds : \A a \in cmds[c].limitedThen :
          /\ a \notin TimerAccs(c) \cup CallAccs(c)
          /\ (a \in Range(cmds[c].bots)
                    /\ cmds[c].outcome = "addfriendcmdsuccess")
                => [cmd |-> c, acc |-> a, msg |-> "limited"] \in errlog
    /\ \A c \in DOMAIN cmds :
          cmds[c].kind = "comment" =>
              \E i \in DOMAIN remoteCalls :
                  remoteCalls[i].cmd = c /\ remoteCalls[i].kind = "postComment"

\* A limited online account was left out of an addfriend batch in which
\* another account made its call, and a limited account posted a comment.
C6_Witness ==
    /\ \E c \in AddCmds :
          /\ cmds[c].limitedThen \cap Range(cmds[c].bots) # {}
          /\ CallAccs(c) # {}
    /\ \E i \in DOMAIN remoteCalls :
          /\ remoteCalls[i].kind = "postComment"
          /\ remoteCalls[i].acc \in cmds[remoteCalls[i].cmd].limitedThen

\* The accounts of the batch of command c that are neither limited nor
\* friend or blocked with the target.
Eligible(c) ==
    {a \in Range(cmds[c].bots) :
        a \notin cmds[c].limitedThen /\ a \notin cmds[c].friendThen}

\* C7 as stated: whichever account is limited, the main account included,
\* every eligible account of the batch gets to make its addFriend call.
C7_AnyLimitedAccountDropsOnlyItself ==
    \A c \in AddCmds : Eligible(c) \subseteq TimerAccs(c) \cup CallAccs(c)

\* C7 amended: when the main account is not limited, every eligible account
\* of the batch gets to make its addFriend call; when the main account is
\* limited, the command is refused and no account makes a call.
C7_LimitedAccountDropsOnlyItself ==
    \A c \in AddCmds :
        IF cmds[c].outcome = "addfriendcmdsuccess"
          THEN Eligible(c) \subseteq TimerAccs(c) \cup CallAccs(c)
          ELSE /\ Main \in cmds[c].limitedThen
               /\ TimerAccs(c) \cup CallAccs(c) = {}

\* In a batch an account after a limited one has made its call.
C7_Witness ==
    \E c \in AddCmds : \E i, j \in DOMAIN cmds[c].bots :
        /\ i < j
        /\ cmds[c].bots[i] \in cmds[c].limitedThen
        /\ cmds[c].bots[j] \in CallAccs(c)

\* The position of account a in the batch of command c.
PosIn(a, c) == (CHOOSE i \in DOMAIN cmds[c].bots : cmds[c].bots[i] = a) - 1

BulkCmds ==
    {c \in DOMAIN cmds :
        cmds[c].outcome \in {"addfriendcmdsuccess", "unfriendcmdsuccess",
                             "unfriendidcmdsuccess"}}

PerItemDelay(c) == IF cmds[c].kind = "addfriend" THEN AddDelay ELSE RemoveDelay

\* C8: in an addfriend or unfriend batch the call of the account at
\* position i is due, and made, i x the per-item delay after the command was
\* processed; the calls of two accounts are at least one delay apart.
C8_StaggeredByPosition ==
    \A c \in BulkCmds :
        /\ \A k \in DOMAIN timers :
              timers[k].cmd = c =>
                  timers[k].due =
                      cmds[c].at + PerItemDelay(c) * PosIn(timers[k].acc, c)
        /\ \A i \in DOMAIN remoteCalls :
              remoteCalls[i].cmd = c =>
                  remoteCalls[i].at =
                      cmds[c].at + PerItemDelay(c) * PosIn(remoteCalls[i].acc, c)
        /\ \A i, j \in DOMAIN remoteCalls :
              (remoteCalls[i].cmd = c /\ remoteCalls[j].cmd = c
                    /\ remoteCalls[i].acc # remoteCalls[j].acc /\ i < j)
                => remoteCalls[j].at - remoteCalls[i].at >= PerItemDelay(c)

\* Three accounts have made the calls of an addfriend batch, and two those
\* of an unfriend batch.
C8_Witness ==
    /\ \E c \in BulkCmds :
          cmds[c].kind = "addfriend" /\ Cardinality(CallAccs(c)) >= 3
    /\ \E c \in BulkCmds :
          cmds[c].kind = "unfriend" /\ Cardinality(CallAccs(c)) >= 2

\* C9 as stated: no two removals of an unfriendall batch are due at the
\* same instant.
C9_NoTwoRemovalsAtOnce ==
    \A k, l \in DOMAIN timers :
        (k # l /\ timers[k].kind = "unfriendallRemove"
               /\ timers[l].kind = "unfriendallRemove"
               /\ timers[k].cmd = timers[l].cmd
               /\ timers[k].id \notin OwnerIds /\ timers[l].id \notin OwnerIds)
          => timers[k].due # timers[l].due

\* C10 as stated: the calls of one account for one steamID are made in the
\* order of the commands that asked for them.
C10_SamePeerInOrder ==
    \A i, j \in DOMAIN remoteCalls :
        (i < j /\ remoteCalls[i].acc = remoteCalls[j].acc
               /\ remoteCalls[i].id = remoteCalls[j].id
               /\ remoteCalls[i].kind \in {"addFriend", "removeFriend"}
               /\ remoteCalls[j].kind \in {"addFriend", "removeFriend"})
          => remoteCalls[i].cmd <= remoteCalls[j].cmd

\* The unfriendall requests, and the abort commands that follow request c.
UnfriendAllRequests ==
    {c \in DOMAIN cmds :
        /\ cmds[c].kind = "unfriendall"
        /\ cmds[c].outcome \in {"unfriendallcmdpending", "unfriendallcmdstart"}}

AbortsOf(c) ==
    {d \in DOMAIN cmds :
        d > c /\ cmds[d].kind = "unfriendall"
              /\ cmds[d].outcome = "unfriendallcmdabort"}

RemovalsOf(c) == {i \in DOMAIN remoteCalls : remoteCalls[i].cmd = c}

\* C11 as stated: an unfriendall request followed by an abort within its 30
\* seconds never starts and makes no removeFriend call; in any case no
\* removal is made before the 30 seconds are over.
C11_AbortedRequestNeverStarts ==
    \A c \in UnfriendAllRequests :
        /\ (\E d \in AbortsOf(c) : cmds[d].at < cmds[c].at + UnfriendAllPending)
              => /\ cmds[c].outcome # "unfriendallcmdstart"
                 /\ RemovalsOf(c) = {}
        /\ \A i \in RemovalsOf(c) :
              remoteCalls[i].at >= cmds[c].at + UnfriendAllPending

\* C12 as stated: once a batch has started, an abort stops every removal of
\* the batch that has not been made yet.
C12_AbortStopsPendingRemovals ==
    \A c \in UnfriendAllRequests : \A d \in AbortsOf(c) :
        cmds[d].at >= cmds[c].at + UnfriendAllPending
          => \A i \in RemovalsOf(c) : remoteCalls[i].at <= cmds[d].at

\* The addFriend calls of command c that failed.
FailedCalls(c) ==
    {i \in DOMAIN remoteCalls : remoteCalls[i].cmd = c /\ remoteCalls[i].err}

RestartsSent == {i \in DOMAIN sent : sent[i].type = "restart"}

\* _start of this process has taken over the restart data and the login
\* has not run since.
JustIngested ==
    /\ boot.from # 0
    /\ Len(boot.log) > 0
    /\ boot.pc \in {"misc", "connection", "dataManager", "checkData",
                    "updater", "preLogin", "updating"}

\* C14: when restart() was called without data and the host has handed the
\* payload to the next process, info.skippedaccounts after _start has taken
\* it over is the list info.skippedaccounts was at the call, in order.
C14_SkippedAccountsRoundTrip ==
    (JustIngested /\ sent[boot.from].given = NoData)
        => info.skippedaccounts = sent[boot.from].skipped

\* A list of two accounts that is not in fleet order came through.
C14_Witness ==
    /\ JustIngested
    /\ sent[boot.from].given = NoData
    /\ Len(info.skippedaccounts) = 2
    /\ info.skippedaccounts[1] > info.skippedaccounts[2]

RestartStateKeys == {"skippedaccounts", "logafterrestart", "updateFailed"}

\* C15 as stated: every restart payload has the skipped accounts, the log
\* backlog and updateFailed.
C15_PayloadHasEveryField ==
    \A i \in RestartsSent : RestartStateKeys \subseteq DOMAIN Parse(sent[i].data)

\* C15 amended: the payload of restart() without data has skippedaccounts,
\* as info.skippedaccounts is, and updateFailed = false, and nothing else
\* (no log backlog); data given to restart() is sent as it is.
C15_DefaultPayloadFields ==
    \A i \in RestartsSent :
        IF sent[i].given = NoData
          THEN /\ DOMAIN Parse(sent[i].data) = {"skippedaccounts", "updateFailed"}
               /\ Parse(sent[i].data).skippedaccounts = sent[i].skipped
               /\ ~Parse(sent[i].data).updateFailed
          ELSE sent[i].data = sent[i].given

\* restart() has been called without data while an account was skipped,
\* and with data.
C15_Witness ==
    /\ \E i \in RestartsSent : sent[i].given = NoData /\ sent[i].skipped # <<>>
    /\ \E i \in RestartsSent : sent[i].given # NoData

(***************************************************************************)
(* Claims about login failures and relogin (under LoginSpec).              *)
(***************************************************************************)

\* The sessions the running login() still has to deal with.
InPlay ==
    {loginQueue[i] : i \in DOMAIN loginQueue}
        \cup (IF loginProc.phase = "idle" THEN {} ELSE {loginProc.acc})

\* Session a is not scheduled for login, in state (q, p).
NotScheduled(a, q, p) ==
    /\ \A i \in DOMAIN q : q[i] # a
    /\ p.phase = "idle" \/ p.acc # a

\* C16: a login attempt that fails with a fatal error puts the session in
\* ERROR at once, without a retry; a session in ERROR stays in ERROR and is
\* not scheduled for login.
C16_FatalIsTerminal ==
    [][/\ \A a \in Accounts : status[a] = "ERROR" => status'[a] = "ERROR"
       /\ \A a \in Accounts :
             status'[a] = "ERROR" => NotScheduled(a, loginQueue', loginProc')
       /\ LoginAttemptEnds("fatal")
             => /\ status'[loginProc.acc] = "ERROR"
                /\ retries' = retries
                /\ loginQueue' = loginQueue]_vars

\* A session went to ERROR on its first attempt, without a retry, and the
\* login of another session has started since.
C16_Witness ==
    \E a \in Accounts : \E k \in DOMAIN loginStarts :
        /\ status[a] = "ERROR"
        /\ retries[a] = 0
        /\ loginStarts[k].acc = a
        /\ k < Len(loginStarts)
        /\ \A l \in DOMAIN loginStarts : loginStarts[l].acc = a => l = k

RECURSIVE AttemptsLeft(_)
\* The login attempts the sessions of set S can still make.
AttemptsLeft(S) ==
    IF S = {} THEN 0
    ELSE LET a == CHOOSE x \in S : TRUE
         IN (MaxRetries + 1 - retries[a]) + AttemptsLeft(S \ {a})

\* C17: a session is requeued at the tail after a transient failure at most
\* MaxRetries times; the next transient failure marks it ERROR and records
\* it in skippedaccounts. Every attempt that ends uses up one of the attempts
\* left to the sessions of the running login(), and nothing but a new
\* login() adds to them: the queue empties after finitely many attempts.
C17_BoundedRetries ==
    [][/\ \A a \in Accounts : retries'[a] <= MaxRetries
       /\ (\E o \in {"success", "transient", "fatal"} : LoginAttemptEnds(o))
             => AttemptsLeft(InPlay)' < AttemptsLeft(InPlay)
       /\ ~Login => AttemptsLeft(InPlay)' <= AttemptsLeft(InPlay)
       /\ LoginAttemptEnds("transient")
             => LET a == loginProc.acc
                IN IF retries[a] < MaxRetries
                     THEN /\ loginQueue' = Append(loginQueue, a)
                          /\ retries'[a] = retries[a] + 1
                          /\ status'[a] = "OFFLINE"
                     ELSE /\ status'[a] = "ERROR"
                          /\ info'.skippedaccounts =
                                Append(info.skippedaccounts, a)
                          /\ NotScheduled(a, loginQueue', loginProc')]_vars

\* A session has used up its retries and is skipped, and the login process
\* is over with another session online.
C17_Witness ==
    /\ ~info.activeLogin
    /\ loginQueue = <<>>
    /\ \E a \in Accounts :
          /\ status[a] = "ERROR"
          /\ retries[a] = MaxRetries
          /\ \E i \in DOMAIN info.skippedaccounts : info.skippedaccounts[i] = a
    /\ \E a \in Accounts : status[a] = "ONLINE"

\* C18: a DISCONNECTED session leaves DISCONNECTED only for LOGGING_IN, and
\* only while relogAfterDisconnect is true.
C18_RelogOnlyWhileEnabled ==
    [][\A a \in Accounts :
          (status[a] = "DISCONNECTED" /\ status'[a] # "DISCONNECTED")
            => status'[a] = "LOGGING_IN" /\ info.relogAfterDisconnect]_vars

\* A session that had been online and lost its connection is logging in
\* again.
C18_Witness ==
    \E a \in Accounts :
        /\ status[a] = "LOGGING_IN"
        /\ retries[a] = 0
        /\ Cardinality({k \in DOMAIN loginStarts : loginStarts[k].acc = a}) = 2

(***************************************************************************)
(* Claims about the friendlist upkeep (CapacitySpec).                      *)
(***************************************************************************)
\* Peer p has the earliest time in the lastcomment database of account a
\* and no entry before it has the same time.
IsOldestOf(a, p) ==
    \E i \in DOMAIN lastcomment[a] :
        /\ lastcomment[a][i].peer = p
        /\ \A j \in DOMAIN lastcomment[a] :
              /\ lastcomment[a][i].time <= lastcomment[a][j].time
              /\ j < i => lastcomment[a][i].time < lastcomment[a][j].time

\* C19: a capacity check of an account with no space left queues exactly one
\* removal, of that account's lastcomment entry with the earliest time and
\* among those the first inserted; a check of an account with space for at
\* least one friend queues nothing.
C19_CapacityCheckQueuesOldest ==
    [][\A a \in Accounts :
          friendListCapacityCheck(a) =>
             IF Remaining(a) < 1
               THEN /\ Len(removalQueue') = Len(removalQueue) + 1
                    /\ SubSeq(removalQueue', 1, Len(removalQueue)) = removalQueue
                    /\ removalQueue'[Len(removalQueue')].acc = a
                    /\ ~removalQueue'[Len(removalQueue')].done
                    /\ IsOldestOf(a, removalQueue'[Len(removalQueue')].peer)
               ELSE removalQueue' = removalQueue]_vars

\* A full account whose two entries have the same time has had its capacity
\* check: the removal of the first inserted entry is queued.
C19_Witness ==
    \E i \in DOMAIN removalQueue :
        LET r == removalQueue[i]
        IN /\ r.by = "capacity"
           /\ ~r.done
           /\ checks[r.check].at = now
           /\ Remaining(r.acc) = 0
           /\ Len(lastcomment[r.acc]) = 2
           /\ lastcomment[r.acc][1].time = lastcomment[r.acc][2].time
           /\ lastcomment[r.acc][1].peer = r.peer

\* C20: sweeps never queue a peer of an account whose removal is queued and
\* not made yet, so a sweep run again before the removals are made queues no
\* expired peer a second time.
C20_SweepQueuesPeerOnce ==
    \A i, j \in DOMAIN removalQueue :
        (/\ i < j
         /\ removalQueue[i].acc = removalQueue[j].acc
         /\ removalQueue[i].peer = removalQueue[j].peer
         /\ ~removalQueue[i].done
         /\ ~removalQueue[j].done)
        => removalQueue[j].by # "expiry"

\* Two sweeps have run one after the other at the same time; the removal the
\* first one queued is not made yet and its entry is still expired.
C20_Witness ==
    \E k \in DOMAIN checks : \E i \in DOMAIN removalQueue :
        LET r == removalQueue[i]
        IN /\ k + 1 \in DOMAIN checks
           /\ checks[k].kind = "sweep"
           /\ checks[k + 1].kind = "sweep"
           /\ checks[k].at = now
           /\ checks[k + 1].at = now
           /\ r.check = k
           /\ r.by = "expiry"
           /\ ~r.done
           /\ \E e \in DOMAIN lastcomment[r.acc] :
                 /\ lastcomment[r.acc][e].peer = r.peer
                 /\ now - lastcomment[r.acc][e].time > UnfriendTime

(***************************************************************************)
(* Claims about the helpers (HelperSpec).                                  *)
(***************************************************************************)
\* The accounts of botobject with limitations e.
Having(botobject, e) ==
    Cardinality({i \in DOMAIN botobject : botobject[i] = e})

\* C22: once limitedcheck.check has completed it has called its callback
\* exactly once, whatever the botobject.
C22_CallbackExactlyOnce ==
    limitedcheck.pc = "completed" => Len(limitedcheck.callbacks) = 1

C24_CallbackOnceAfterEveryStep ==
    /\ Len(npm.callbacks) <= 1
    /\ npm.pc \in {"completed", "rejected"} =>
          /\ Len(npm.callbacks) = 1
          /\ \/ npm.callbacks[1].err = "err" /\ npm.callbacks[1].stdout = "null"
             \/ npm.callbacks[1].err = "null" /\ npm.callbacks[1].stdout \in Stdouts
    /\ \A i \in DOMAIN npm.steps :
          (npm.fn = "reinstallAll" /\ npm.steps[i] = "npm install")
             => i > 1 /\ npm.steps[i - 1] = "rm"

(***************************************************************************)
(* Claims about who may use the friend commands and when (CommandSpec).    *)
(***************************************************************************)
\* The timers and remote calls of command c.
TimersOf(c) == {k \in DOMAIN timers : timers[k].cmd = c}
CallsOf(c) == {k \in DOMAIN remoteCalls : remoteCalls[k].cmd = c}

\* C25: an unfriend command with an ID argument from a user who is not in the
\* owner list of the request sets no timer and makes no call, and no
\* removeFriend timer or call ever belongs to an unfriend command that was
\* answered with anything but a success.
C25_UnfriendIdOwnerOnly ==
    /\ [](\A c \in DOMAIN cmds :
            (cmds[c].kind = "unfriend"
                /\ cmds[c].outcome \notin {"unfriendcmdsuccess",
                                           "unfriendidcmdsuccess"})
              => TimersOf(c) = {} /\ CallsOf(c) = {})
    /\ [][\A requester \in Ids : \A arg \in Args \ {NoArg} :
          \A chat \in BOOLEAN : \A ownerIDs \in {{}, {NumIds}} :
             (UnfriendCmd(requester, arg, chat, ownerIDs)
                 /\ requester \notin Owners(ownerIDs))
               => /\ timers' = timers
                  /\ remoteCalls' = remoteCalls
                  /\ cmds'[Len(cmds')].outcome
                        \in {"botnotready", "commandowneronly"}]_vars

\* A user who is no owner was refused after the ready event, while the
\* unfriend of an owner for the same kind of request has made its calls.
C25_Witness ==
    \E c, d \in DOMAIN cmds :
        /\ info.readyAfter # 0
        /\ cmds[c].kind = "unfriend"
        /\ cmds[c].outcome = "commandowneronly"
        /\ TimersOf(c) = {} /\ CallsOf(c) = {}
        /\ cmds[d].outcome = "unfriendidcmdsuccess"
        /\ CallsOf(d) # {}

\* C27: no removeFriend call for an owner of cachefile.ownerid comes from an
\* unfriend with an ID argument or from unfriendall: such a call can only
\* belong to an unfriend without argument, by which the owner removes
\* themself.
C27_OwnerNeverRemoved ==
    \A k \in DOMAIN remoteCalls :
        (remoteCalls[k].kind = "removeFriend" /\ remoteCalls[k].id \in OwnerIds)
          => /\ cmds[remoteCalls[k].cmd].kind = "unfriend"
             /\ cmds[remoteCalls[k].cmd].outcome = "unfriendcmdsuccess"

\* An unfriendall has made all its removals for an account that has an owner
\* as friend, and an unfriend of an owner's ID was refused.
C27_Witness ==
    \E c, d \in DOMAIN cmds :
        /\ cmds[c].kind = "unfriendall"
        /\ cmds[c].outcome = "unfriendallcmdstart"
        /\ TimersOf(c) = {}
        /\ \E k \in CallsOf(c) :
              /\ remoteCalls[k].kind = "removeFriend"
              /\ \E o \in OwnerIds : myFriends[remoteCalls[k].acc][o] = 3
        /\ cmds[d].kind = "unfriend"
        /\ cmds[d].outcome = "idisownererror"

\* C28: while info.readyAfter is 0, addfriend, unfriend and unfriendall answer
\* botnotready and leave the timers and the remote calls as they are; no
\* timer or call ever belongs to a command answered with botnotready.
C28_NotReadyNoFriendCalls ==
    /\ [](\A c \in DOMAIN cmds :
            cmds[c].outcome = "botnotready"
              => TimersOf(c) = {} /\ CallsOf(c) = {})
    /\ [][(/\ info.readyAfter = 0
           /\ \/ \E arg \in Args : AddFriendCmd(arg)
              \/ \E requester \in Ids : \E arg \in Args : \E chat \in BOOLEAN :
                    \E ownerIDs \in {{}, {NumIds}} :
                        UnfriendCmd(requester, arg, chat, ownerIDs)
              \/ \E abort \in BOOLEAN : UnfriendAllCmd(abort))
            => /\ timers' = timers
               /\ remoteCalls' = remoteCalls
               /\ cmds'[Len(cmds')].outcome = "botnotready"]_vars

\* Before the ready event two different commands were answered botnotready;
\* nothing is scheduled and nothing was called.
C28_Witness ==
    /\ info.readyAfter = 0
    /\ Len(cmds) = 2
    /\ cmds[1].kind # cmds[2].kind
    /\ \A c \in DOMAIN cmds : cmds[c].outcome = "botnotready"
    /\ timers = <<>>
    /\ remoteCalls = <<>>
    /\ \E a \in Accounts : \E id \in Ids : myFriends[a][id] = 3

(***************************************************************************)
(* Claims about the boot (RestartSpec).                                    *)
(***************************************************************************)
\* The running process has emitted stop().
StopEmitted ==
    \E i \in (boot.from + 1) .. Len(sent) : sent[i].type = "stop"

\* What the running process has logged of kind k.
Logged(k) == \E i \in DOMAIN boot.log : boot.log[i].kind = k

\* C29: a failed reachability check and a failed check of the imported data
\* emit stop(), and a process that has emitted stop() during its boot takes
\* no further boot step: it stays where it is until the host ends it.
C29_FailedCheckAbortsBoot ==
    /\ [][(StartConnection(FALSE) \/ StartCheckData(FALSE))
            => sent' = Append(sent, StopMessage)]_vars
    /\ [][(StopEmitted /\ boot.pc \notin {"running", "returned", "stopped"})
            => /\ boot'.pc \in {boot.pc, "stopped"}
               /\ boot'.log = boot.log]_vars

\* C30: the boot step that decides on the updater skips it and goes on to the
\* pre-login exactly if updateFailed was carried over as true; otherwise it
\* runs the updater and goes on to the pre-login only if no update was
\* found. A process calls login only after one of the two, and a process
\* that found an update never calls login.
C30_UpdaterOrLogin ==
    /\ [](/\ Logged("login") =>
                \/ globals.updateFailed /\ Logged("updateskipped")
                                        /\ ~Logged("updaterrun")
                \/ ~globals.updateFailed /\ Logged("updaterrun")
                                         /\ ~Logged("updateskipped")
          /\ boot.pc = "updating" => Logged("updaterrun") /\ ~Logged("login"))
    /\ [][\A updateFound \in BOOLEAN :
            StartUpdater(TRUE, updateFound) =>
               IF globals.updateFailed
                 THEN /\ boot'.pc = "preLogin"
                      /\ boot'.log = Append(boot.log, [kind |-> "updateskipped",
                                                       msg |-> ""])
                 ELSE /\ boot'.pc = IF updateFound THEN "updating"
                                                   ELSE "preLogin"
                      /\ boot'.log = Append(boot.log, [kind |-> "updaterrun",
                                                       msg |-> ""])]_vars
    /\ [][boot.pc = "updating" =>
            boot'.pc \in {"updating", "stopped", "constructed"}]_vars

\* A process started by a restart that carried updateFailed = true has
\* called login without running the updater.
C30_Witness ==
    /\ boot.from > 0
    /\ globals.updateFailed
    /\ boot.pc = "running"
    /\ Logged("updateskipped")
    /\ Logged("login")
    /\ ~Logged("updaterrun")


(***************************************************************************)
(* Claims about the whole process (FleetSpec)                              *)
(***************************************************************************)
\* The step is one of the login scheduler ending an attempt.
SchedulerWrites == \E o \in {"success", "transient", "fatal"} : LoginAttemptEnds(o)

\* C26: lastLoginTimestamp is written only by the login scheduler: within
\* one process no step of the boot, of _preLogin, of restart() or stop(),
\* of a proxy check, of a friend command or its timers, or of the limited
\* check changes it; it changes only on the step that ends a login attempt.
\* A new process starts again with the constructed value 0.
C26_OnlySchedulerWritesTimestamp ==
    [][/\ (info'.lastLoginTimestamp # info.lastLoginTimestamp /\ boot'.from = boot.from)
            => SchedulerWrites
       /\ boot'.from # boot.from => info'.lastLoginTimestamp = InfoInit.lastLoginTimestamp]_vars

\* The timestamp was written by a login attempt, and since then the bot
\* became ready, counted its limited accounts, checked a proxy, served a
\* friend command that called the remote service, and asked for a restart
\* or a stop: the timestamp is still the one of the attempt.
C26_Witness ==
    /\ info.lastLoginTimestamp > 0
    /\ info.readyAfter # 0
    /\ limitedcheck.pc = "completed"
    /\ calls # <<>>
    /\ cmds # <<>>
    /\ remoteCalls # <<>>
    /\ sent # <<>>
    /\ boot.from = 0


(***************************************************************************)
(* Claims about the log backlog (RestartSpec)                              *)
(***************************************************************************)
\* The lines of a message put together again.
RECURSIVE Join(_)
Join(lines) ==
    IF Len(lines) = 1 THEN lines[1]
    ELSE lines[1] \o "\n" \o Join(Tail(lines))

\* The log entries are the messages of the backlog, each logged once, line
\* after line, in the order of the backlog: the entries fall into as many
\* runs as there are messages, and the i-th run is the i-th message.
LoggedOnceInOrder(entries, backlog) ==
    /\ \A i \in DOMAIN entries : entries[i].kind = "logafterrestart"
    /\ \E end \in [0 .. Len(backlog) -> 0 .. Len(entries)] :
          /\ end[0] = 0
          /\ end[Len(backlog)] = Len(entries)
          /\ \A i \in 1 .. Len(backlog) :
                /\ end[i - 1] < end[i]
                /\ Join([l \in 1 .. (end[i] - end[i - 1]) |->
                            entries[end[i - 1] + l].msg]) = backlog[i]

\* The messages the payload of the restart carried to this process.
Carried ==
    IF boot.from = 0 THEN <<>>
    ELSE LET d == Parse(sent[boot.from].data)
         IN IF "logafterrestart" \in DOMAIN d THEN d["logafterrestart"] ELSE <<>>

IsPrefix(p, q) == Len(p) <= Len(q) /\ SubSeq(q, 1, Len(p)) = p

\* C31: the log backlog carried through a restart is replayed once the real
\* logger is there: until then the carried messages head the backlog; the
\* step that brings the logger logs every message of the backlog exactly
\* once, in its order, and then the banner, and empties the backlog; after
\* the banner no message is replayed again and the backlog stays empty.
C31_BacklogReplayedOnce ==
    /\ [](boot.pc \in {"constructed", "logger"}
            => IsPrefix(Carried, globals.logafterrestart))
    /\ [](Logged("banner") => globals.logafterrestart = <<>>)
    /\ [][(boot.pc = "logger" /\ boot'.pc = "misc") =>
            LET n == Len(boot'.log)
            IN /\ n > Len(boot.log)
               /\ boot'.log[n].kind = "banner"
               /\ LoggedOnceInOrder(SubSeq(boot'.log, Len(boot.log) + 1, n - 1),
                                    globals.logafterrestart)
               /\ globals'.logafterrestart = <<>>]_vars
    /\ [][boot.pc \notin {"constructed", "logger"} /\ boot'.from = boot.from
            => \A i \in DOMAIN boot'.log :
                  boot'.log[i].kind \in {"logafterrestart", "banner"}
                      => i \in DOMAIN boot.log]_vars

\* A process started by a restart that carried a message of one line and
\* one of two has replayed the three lines and logged the banner.
C31_Witness ==
    /\ boot.from # 0
    /\ Carried = <<"m1", "m2\nm3">>
    /\ Len(boot.log) >= 4
    /\ [i \in 1 .. 4 |-> boot.log[i].msg] = <<"m1", "m2", "m3", "">>
    /\ boot.log[4].kind = "banner"
    /\ globals.logafterrestart = <<>>


(***************************************************************************)
(* Claims about concurrent proxy checks (ProxySpec)                        *)
(***************************************************************************)
\* The calls of batch b, a checkAllProxies() invocation.
BatchCalls(b) == {allChecks[b].promiseArr[i] : i \in DOMAIN allChecks[b].promiseArr}

\* C32: checkAllProxies starts the probe of every proxy before it waits for
\* any of them: on the step that makes the batch every proxy has a call of
\* the batch with its probe under way; a probe under way can settle and a
\* settled check can return whatever the other probes do; and the batch
\* stays pending as long as one of its probes is under way.
C32_EveryProbeStartedAtOnce ==
    /\ [][Len(allChecks') > Len(allChecks) =>
            LET promiseArr == allChecks'[Len(allChecks')].promiseArr
            IN \A p \in ProxyIndexes :
                  \E c \in {promiseArr[i] : i \in DOMAIN promiseArr} :
                      /\ c \in DOMAIN calls'
                      /\ c \notin DOMAIN calls
                      /\ calls'[c].proxyIndex = p
                      /\ calls'[c].phase = "probing"]_vars
    /\ [](\A b \in DOMAIN allChecks : \A c \in BatchCalls(b) :
            /\ calls[c].phase # "queued"
            /\ calls[c].phase = "probing" =>
                  /\ \A probe \in Probes : ENABLED ProbeSettles(c, probe)
                  /\ allChecks[b].phase = "pending"
            /\ calls[c].phase = "settled" => ENABLED CheckProxyReturns(c))

\* One proxy hangs: time has passed since checkAllProxies was called, the
\* check of another proxy of the batch has returned, this one's probe is
\* still under way and the batch is pending.
C32_Witness ==
    \E b \in DOMAIN allChecks :
        /\ allChecks[b].phase = "pending"
        /\ now > allChecks[b].startedAt
        /\ \E c, d \in BatchCalls(b) :
              /\ calls[c].phase = "probing"
              /\ calls[d].phase = "returned"
              /\ proxies[calls[d].proxyIndex].lastOnlineCheck = allChecks[b].startedAt


(***************************************************************************)
(* Claims about what a timer finds when it fires (FriendSpec,              *)
(* UnfriendAllSpec)                                                        *)
(***************************************************************************)
\* The remote calls the step makes.
NewCalls == {remoteCalls'[i] : i \in (DOMAIN remoteCalls') \ (DOMAIN remoteCalls)}

\* C33 as stated: an addFriend call is only ever issued by an account that
\* is online and not limited at the moment the call is made, also when the
\* account's limitation or status changed after the command was processed.
C33_AddFriendCallerFitWhenFired ==
    [][\A call \in NewCalls :
          call.kind = "addFriend"
              => status[call.acc] = "ONLINE" /\ ~IsLimited(call.acc)]_vars


\* C34 as stated: in unfriendall the removeFriend call for a friend is made
\* by the account in whose friend list the friend was found when the batch
\* was scheduled, also when an account went offline or came online between
\* the scheduling and the firing of the timer.
C34_RemovedByTheAccountItWasFoundOn ==
    [][\A k \in DOMAIN timers :
          (timers[k].kind = "unfriendallRemove" /\ TimerFires(k))
              => \A call \in NewCalls : call.acc = timers[k].acc]_vars


(***************************************************************************)
(* Claims about overlapping checks of one proxy (ProxySpec)                *)
(***************************************************************************)
\* What the probe of a check says about the proxy.
OutcomeOf(probe) == checkProxySettle(FALSE, probe).isOnline

\* The stored isOnline is the outcome of the probe that settled last: a
\* settling probe stores its outcome and nothing else changes isOnline.
StoredIsLastSettled ==
    \A p \in ProxyIndexes :
        /\ \A c \in DOMAIN calls :
              (calls[c].proxyIndex = p /\ calls[c].phase = "probing"
                    /\ calls'[c].phase = "settled")
                  => proxies'[p].isOnline = OutcomeOf(calls'[c].probe)
        /\ proxies'[p].isOnline # proxies[p].isOnline
              => \E c \in DOMAIN calls :
                    /\ calls[c].proxyIndex = p
                    /\ calls[c].phase = "probing"
                    /\ calls'[c].phase = "settled"

\* A check returns the outcome of its own probe.
ReturnsOwnOutcome ==
    \A c \in DOMAIN calls :
        (calls[c].phase = "settled" /\ calls'[c].phase = "returned")
            => lastReturn' = [call |-> c, value |-> OutcomeOf(calls[c].probe)]

\* C35 as stated: when several checkProxy calls for one proxy are in flight
\* at once, each call returns the outcome of its own probe, and the stored
\* isOnline is the outcome of the probe that completed last.
C35_OverlappingChecksReturnOwnOutcome ==
    [][ReturnsOwnOutcome /\ StoredIsLastSettled]_vars

=============================================================================
